---- MODULE Spec2Model ----
(***************************************************************************)
(* Radio Network Adapter Layer of POTA-CAT: the SmartSDR TCP client, the   *)
(* TCI WebSocket client, the WSJT-X UDP client and the PSKReporter poller, *)
(* each modelled as an event-driven state machine together with the part   *)
(* of the runtime it drives (sockets, the timer table).                    *)
(*                                                                         *)
(* Adapters share no state.  A behaviour of this module follows ONE        *)
(* adapter instance, chosen by the variable `adapter` in the initial       *)
(* state; the records of the other adapters stay as constructed.           *)
(*                                                                         *)
(* Every handler of the source is an operator from a world record to a     *)
(* world record, so that handlers that call each other compose             *)
(* (connect = disconnect ; _doConnect).  The world record of an adapter    *)
(* holds the adapter object's fields under their source names, the         *)
(* runtime objects it owns (socks, timers) and a per-step log of what the  *)
(* last handler did (op, stale, written, emitted).                         *)
(*                                                                         *)
(* Object references are encoded without addresses: a socket record has    *)
(* cur = TRUE when the adapter's socket field refers to it, a timer record *)
(* has h = TRUE when the adapter's handle field of its kind refers to it;  *)
(* the field itself is 1 (set) or 0 (null).  The field n tells apart       *)
(* objects that are otherwise equal.                                       *)
(***************************************************************************)
EXTENDS Integers, Sequences, FiniteSets, TLC

VARIABLES adapter, sdr, tci, wsjtx, pskr, respot, clock, codec

vars == <<adapter, sdr, tci, wsjtx, pskr, respot, clock, codec>>

----------------------------------------------------------------------------
(* Bounds of the model *)

\* a handler that writes to the socket starts only while _seq <= MaxSeq
MaxSeq == 3
\* socket objects at once, those held only by a pending destroy timer included
\* (host connect() is not called beyond it)
MaxSocks == 1
\* pending bind timers at once (they are never cancelled)
MaxTimers == 2
\* cw key / cw ptt commands per connection
MaxKeyIndex == 3
\* commands buffered in the TCI adapter's _pendingCmds when a handler starts
MaxCmds == 1
\* HTTPS requests of the PSKReporter adapter in flight when connect() is called
MaxReqs == 2
\* pieces of input held in the buffer of postWwffRespot after a data event
MaxBuf == 4
\* bytes of one chunk of the SmartSDR inbound stream
MaxChunk == 2
\* milliseconds that the clock advances while the CW timestamps are followed
MaxTicks == 3
\* the longest string the codec is given, in characters
MaxStr == 1
\* the most tokens in a decode text
MaxTokens == 3


----------------------------------------------------------------------------
(* Program constants *)

\* Date.now() when the clock starts to run, counted from a multiple of 2^32 ms
\* (the model keeps the low bits of the clock only): 2 ms before the low 16
\* bits wrap
ClockStart == 65534

\* setTimeout delays, in ms
ReconnectDelay == 5000
CwPttHoldoff == 1500
BindDelay == 500
DestroyDelay == 500
\* addSpot: Math.abs(prevFreq - freqMHz) > 0.0005 (MHz), here in Hz
SdrFreqThresholdHz == 500

\* callsigns offered to addSpot; "" stands for a missing / whitespace-only callsign
Calls == {"K1ABC", "W2XYZ"}

\* frequencies offered to addSpot, in Hz; 0 stands for a missing / NaN frequency
Freqs == {14074000, 14078000}
\* spot.frequency offered to the TCI addSpot, in kHz; 0 stands for a missing / NaN one
FreqsKHz == {14074, 14078}
\* addSpot: Math.abs(prevFreq - freqHz) > 50
TciFreqThresholdHz == 50

\* client ids seen in status broadcasts; OwnClientId is the id the host passes
\* to setPersistentId, "" stands for null
OwnClientId == "own-id"
GuiClientId == "gui-id"
ClientIds == {OwnClientId, GuiClientId}

----------------------------------------------------------------------------
(* Helpers *)

Abs(n) == IF n < 0 THEN -n ELSE n

SeqToSet(s) == {s[i] : i \in 1..Len(s)}

InSeq(x, s) == x \in SeqToSet(s)

\* Set.prototype.add on an insertion-ordered Set
SetAdd(s, x) == IF InSeq(x, s) THEN s ELSE Append(s, x)

\* the smallest positive integer not in `used`
FreshId(used) == CHOOSE i \in 1..(Cardinality(used) + 1) :
                    /\ i \notin used
                    /\ \A j \in 1..(i - 1) : j \in used

\* a command on the wire
Cmd(c, call, x, y) == [c |-> c, call |-> call, x |-> x, y |-> y]

\* the log of one handler run starts empty; stale: the event comes from a socket
\* that disconnect() has closed
Begin(w, op, stale) ==
    [w EXCEPT !.op = op, !.stale = stale, !.written = <<>>, !.emitted = <<>>]

Emit(w, ev) == [w EXCEPT !.emitted = Append(@, ev)]

\* the smallest n that tells a new object apart from the equal ones in `objs`
FreshN(objs, o) == FreshId({x.n : x \in {y \in objs : [y EXCEPT !.n = 0] = o}})

\* handle = setTimeout(cb, delay): a new entry of the timer table, to which the
\* adapter's handle field of that kind now refers (tracked), or which no field
\* refers to
SetTimeout(w, kind, delay, tracked) ==
    LET old == {IF t.kind = kind /\ tracked THEN [t EXCEPT !.h = FALSE] ELSE t : t \in w.timers}
        t0 == [kind |-> kind, delay |-> delay, h |-> tracked, n |-> 0]
    IN [w EXCEPT !.timers = old \cup {[t0 EXCEPT !.n = FreshN(old, t0)]}]

\* clearTimeout(handle): removes the timer the handle refers to; no effect when
\* that timer has fired already
ClearTimeout(w, kind) == [w EXCEPT !.timers = {t \in @ : ~(t.kind = kind /\ t.h)}]

PendingTimers(w, kind) == {t \in w.timers : t.kind = kind}

\* the runtime removes a timer from its table before it runs the callback
Fire(w, t) == [w EXCEPT !.timers = @ \ {t}]

----------------------------------------------------------------------------
(* SmartSdrClient (src/unnamed/part_003) *)

\* this._sock = null
SdrClearSockRef(w) ==
    [w EXCEPT !._sock = 0, !.socks = {[s EXCEPT !.cur = FALSE] : s \in @}, !.keyed = -1,
              !.timed = -1]

\* the socket this._sock refers to
SdrCurSock(w) == CHOOSE s \in w.socks : s.cur

\* the socket object s changes to s2 (s2 = s to drop nothing, see SdrDropSock)
SdrSetSock(w, s, s2) ==
    LET rest == w.socks \ {s}
    IN [w EXCEPT !.socks = rest \cup {[s2 EXCEPT !.n = FreshN(rest, [s2 EXCEPT !.n = 0])]}]

\* the connection of s is closed: the object lives on only in the closure of
\* its pending destroy timer (dtimer: the delay of that timer, 0 for none)
SdrDropSock(w, s) ==
    IF s.dtimer # 0 THEN SdrSetSock(w, s, [s EXCEPT !.st = "closed"])
    ELSE [w EXCEPT !.socks = @ \ {s}]

\* sockets whose connection is not closed yet
SdrLive(w) == {s \in w.socks : s.st # "closed"}

\* constructor.  _buf is a sequence of bytes; lines records the lines that the
\* last 'data' event handed to _handleLine.  A socket's rx and got record the
\* network: the bytes that have arrived on its connection, and the lines its
\* 'data' events have handed to _handleLine.
\* cycCur and cycPrev record the host's calls, not the adapter's
\* sets: the callsigns addSpot was called with since the last pruneStaleSpots,
\* and in the cycle before it.  pttWire records the wire, not the adapter's
\* flag: the last cw ptt command written to a socket was cw ptt 1.  keyed
\* records the wire too: the index of the last cw key or cw ptt command written
\* to the socket that _sock refers to, -1 when there is none, and timed is
\* the clock when it was written.  foreign records the wire as well: the client
\* ids of the discovered list that arrived on a socket other than the one _sock
\* refers to
SdrInit ==
    [ _sock |-> 0, _seq |-> 1, _reconnectTimer |-> 0, connected |-> FALSE, _host |-> 0,
      _activeSpots |-> <<>>, _previousSpots |-> <<>>, _spotFreqs |-> [c \in Calls |-> 0],
      _persistentId |-> "",
      _needsCw |-> FALSE, _cwBound |-> FALSE, _bindSeq |-> 0,
      _discoveredGuiClients |-> <<>>, _guiClientHandle |-> 0,
      _cwKeyIndex |-> 0, _cwPttActive |-> FALSE, _cwPttTimer |-> 0,
      socks |-> {}, timers |-> {},
      op |-> "new", stale |-> FALSE, written |-> <<>>, emitted |-> <<>>,
      cycCur |-> {}, cycPrev |-> {}, pttWire |-> FALSE, keyed |-> -1, timed |-> -1,
      foreign |-> {}, _buf |-> <<>>, lines |-> <<>> ]

\* _send: writes C<seq>|<cmd> to the current socket, or drops the command
SdrCanSend(w) == w._sock # 0 /\ w.connected

SdrSendResult(w) == IF SdrCanSend(w) THEN w._seq ELSE 0

SdrSend(w, cmd) ==
    IF ~SdrCanSend(w) THEN w
    ELSE [w EXCEPT !._seq = @ + 1,
                   !.written = Append(@, [seq |-> w._seq, cmd |-> cmd]),
                   !.keyed = IF cmd.c \in {"cw key", "cw ptt"} THEN cmd.y ELSE @,
                   !.timed = IF cmd.c \in {"cw key", "cw ptt"} THEN clock ELSE @]

\* a faulty addSpot, to test C11: the removal is sent on any change of frequency
SdrAddSpotAnyChange(w, call, f) ==
    IF f = 0 THEN w
    ELSE IF call = "" THEN w
    ELSE LET prevFreq == w._spotFreqs[call]
             w1 == IF prevFreq # 0 /\ prevFreq # f
                   THEN SdrSend(w, Cmd("spot remove", call, 0, 0))
                   ELSE w
             w2 == SdrSend(w1, Cmd("spot add", call, f, 0))
         IN [w2 EXCEPT !._activeSpots = SetAdd(@, call), !._spotFreqs[call] = f]

\* addSpot({callsign, freqMHz, ...}); the frequency is in Hz here
SdrAddSpot(w, call, f) ==
    IF f = 0 THEN w
    ELSE IF call = "" THEN w
    ELSE LET prevFreq == w._spotFreqs[call]
             w1 == IF prevFreq # 0 /\ Abs(prevFreq - f) > SdrFreqThresholdHz
                   THEN SdrSend(w, Cmd("spot remove", call, 0, 0))
                   ELSE w
             w2 == SdrSend(w1, Cmd("spot add", call, f, 0))
         IN [w2 EXCEPT !._activeSpots = SetAdd(@, call), !._spotFreqs[call] = f]

\* a faulty pruning loop, to test C1: the membership test is left out, and
\* every callsign of the previous cycle is removed
RECURSIVE SdrPruneLoopAll(_, _)
SdrPruneLoopAll(w, calls) ==
    IF calls = <<>> THEN w
    ELSE SdrPruneLoopAll([SdrSend(w, Cmd("spot remove", Head(calls), 0, 0))
                             EXCEPT !._spotFreqs[Head(calls)] = 0], Tail(calls))

\* the loop of pruneStaleSpots over _previousSpots, in insertion order
RECURSIVE SdrPruneLoop(_, _)
SdrPruneLoop(w, calls) ==
    IF calls = <<>> THEN w
    ELSE LET call == Head(calls)
             w1 == IF ~InSeq(call, w._activeSpots)
                   THEN [SdrSend(w, Cmd("spot remove", call, 0, 0))
                            EXCEPT !._spotFreqs[call] = 0]
                   ELSE w
         IN SdrPruneLoop(w1, Tail(calls))

\* a faulty pruneStaleSpots, to test C12: the sets rotate only when the
\* removals can be sent
SdrPruneStaleSpotsIfConnected(w) ==
    LET w1 == SdrPruneLoop(w, w._previousSpots)
    IN IF SdrCanSend(w)
       THEN [w1 EXCEPT !._previousSpots = w1._activeSpots, !._activeSpots = <<>>]
       ELSE w1

\* a faulty pruneStaleSpots, to test C34: the sets rotate, and the frequency
\* index keeps the entries of the callsigns that were not spotted again
SdrPruneStaleSpotsKeepsFreqs(w) ==
    [w EXCEPT !._previousSpots = w._activeSpots, !._activeSpots = <<>>]

SdrPruneStaleSpots(w) ==
    LET w1 == SdrPruneLoop(w, w._previousSpots)
    IN [w1 EXCEPT !._previousSpots = w1._activeSpots, !._activeSpots = <<>>]

SdrClearSpots(w) ==
    [SdrSend(w, Cmd("spot clear", "", 0, 0))
        EXCEPT !._activeSpots = <<>>, !._previousSpots = <<>>,
               !._spotFreqs = [c \in Calls |-> 0]]

\* Math.round(n / 2) for n >= 0
RoundHalf(n) == (n + 1) \div 2

\* tuneSlice(sliceIndex, freqMhz, mode, filterWidth); mode "" stands for a
\* missing mode, the frequency is in Hz here
SdrTuneSlice(w, sliceIndex, f, mode, filterWidth) ==
    LET w1 == SdrSend(w, Cmd("slice tune", "", sliceIndex, f))
        w2 == IF mode # "" THEN SdrSend(w1, Cmd("slice set mode", mode, sliceIndex, 0)) ELSE w1
        half == RoundHalf(filterWidth)
        lo == IF mode = "CW" THEN (IF 600 - half > 0 THEN 600 - half ELSE 0) ELSE 100
        hi == IF mode = "CW" THEN 600 + half ELSE 100 + filterWidth
    IN IF filterWidth > 0 /\ mode # ""
       THEN SdrSend(w2, Cmd("slice set filter", "", lo, hi))
       ELSE w2

\* a faulty setCwSpeed, to test C17: the command is written without _send's guard
SdrSetCwSpeedUnguarded(w, wpm) ==
    [w EXCEPT !._seq = @ + 1,
              !.written = Append(@, [seq |-> w._seq, cmd |-> Cmd("cw wpm", "", wpm, 0)])]

\* setCwSpeed(wpm)
SdrSetCwSpeed(w, wpm) == SdrSend(w, Cmd("cw wpm", "", wpm, 0))

\* Number.prototype.toString(16): the digits of n, without leading zeros
RECURSIVE ToString16(_)
ToString16(n) ==
    LET digits == <<"0", "1", "2", "3", "4", "5", "6", "7", "8", "9",
                    "a", "b", "c", "d", "e", "f">>
    IN IF n < 16 THEN <<digits[n + 1]>>
       ELSE Append(ToString16(n \div 16), digits[(n % 16) + 1])

\* String.prototype.toUpperCase on hexadecimal digits
ToUpperCase(str) ==
    [i \in 1..Len(str) |->
        CASE str[i] = "a" -> "A" [] str[i] = "b" -> "B" [] str[i] = "c" -> "C"
          [] str[i] = "d" -> "D" [] str[i] = "e" -> "E" [] str[i] = "f" -> "F"
          [] OTHER -> str[i]]

\* String.prototype.padStart(len, ch)
PadStart(str, len, ch) ==
    IF Len(str) >= len THEN str ELSE [i \in 1..(len - Len(str)) |-> ch] \o str

\* a faulty timestamp, to test C26: the padding is left out
CwTimeNoPad(now) == ToUpperCase(ToString16(now % 65536))

\* ts = Date.now() & 0xFFFF (the operand is first reduced modulo 2^32, which
\* keeps its low 16 bits), and tsHex = ts.toString(16).toUpperCase()
\* .padStart(4, '0'), as a sequence of characters
CwTime(now) == PadStart(ToUpperCase(ToString16(now % 65536)), 4, "0")

\* cw key|ptt <x> time=0x<tsHex> index=<idx>
CwCmd(c, x, idx) == [c |-> c, call |-> "", x |-> x, y |-> idx, time |-> CwTime(clock)]

\* cwKey(down): cw key <0|1> time=.. index=<n> [client_handle=..]
SdrCwKey(w, down) ==
    LET idx == w._cwKeyIndex
        w1 == [w EXCEPT !._cwKeyIndex = @ + 1]
    IN SdrSend(w1, CwCmd("cw key", IF down THEN 1 ELSE 0, idx))

\* a faulty cwPttRelease, to test C35: the holdoff timer is left running
SdrCwPttReleaseKeepsTimer(w) ==
    IF w._cwPttActive
    THEN LET idx == w._cwKeyIndex
             w2 == [w EXCEPT !._cwKeyIndex = @ + 1]
             w3 == SdrSend(w2, CwCmd("cw ptt", 0, idx))
         IN [w3 EXCEPT !._cwPttActive = FALSE]
    ELSE w

\* cwPttRelease: cancels the holdoff timer and sends cw ptt 0 when PTT is active
SdrCwPttRelease(w) ==
    LET w1 == IF w._cwPttTimer # 0
              THEN [ClearTimeout(w, "cwPtt") EXCEPT !._cwPttTimer = 0]
              ELSE w
    IN IF w1._cwPttActive
       THEN LET idx == w1._cwKeyIndex
                w2 == [w1 EXCEPT !._cwKeyIndex = @ + 1]
                w3 == SdrSend(w2, CwCmd("cw ptt", 0, idx))
            IN [w3 EXCEPT !._cwPttActive = FALSE]
       ELSE w1

\* cwPttOn: cw ptt 1 once per burst, and the holdoff timer restarted on every call
SdrCwPttOn(w) ==
    LET w1 == IF ~w._cwPttActive
              THEN LET idx == w._cwKeyIndex
                       wa == [w EXCEPT !._cwKeyIndex = @ + 1]
                       wb == SdrSend(wa, CwCmd("cw ptt", 1, idx))
                   IN [wb EXCEPT !._cwPttActive = TRUE]
              ELSE w
        w2 == IF w1._cwPttTimer # 0 THEN ClearTimeout(w1, "cwPtt") ELSE w1
    IN [SetTimeout(w2, "cwPtt", CwPttHoldoff, TRUE) EXCEPT !._cwPttTimer = 1]

SdrCwStop(w) == SdrCwPttRelease(SdrCwKey(w, FALSE))

\* _tryClientBind
SdrTryClientBind(w) ==
    IF w._cwBound THEN w
    ELSE IF w._discoveredGuiClients = <<>> THEN Emit(w, "cw-auth unbound")
    ELSE LET targetId == w._discoveredGuiClients[1]
         IN [SdrSend(w, Cmd("client bind", targetId, 0, 0)) EXCEPT !._bindSeq = SdrSendResult(w)]

\* setPersistentId(id): id || null
SdrSetPersistentId(w, id) == [w EXCEPT !._persistentId = id]

\* setNeedsCw(needs)
SdrSetNeedsCw(w, needs) ==
    LET w1 == [w EXCEPT !._needsCw = needs]
    IN IF w1._needsCw /\ w1.connected /\ ~w1._cwBound THEN SdrTryClientBind(w1) ELSE w1

\* _scheduleReconnect
SdrScheduleReconnect(w) ==
    IF w._reconnectTimer # 0 THEN w
    ELSE [SetTimeout(w, "reconnect", ReconnectDelay, TRUE) EXCEPT !._reconnectTimer = 1]

\* _doConnect: a new socket with the four handlers attached, connecting
SdrDoConnect(w) ==
    LET w1 == SdrClearSockRef(w)
        s0 == [cur |-> TRUE, st |-> "connecting", ended |-> FALSE, dtimer |-> 0, n |-> 0,
               rx |-> <<>>, got |-> <<>>]
    IN [w1 EXCEPT !._sock = 1, !.socks = @ \cup {[s0 EXCEPT !.n = FreshN(w1.socks, s0)]}]

\* disconnect(); sock.end() and the 500 ms timer whose closure holds the socket
SdrDisconnect(w) ==
    LET w1 == SdrCwPttRelease(w)
        w2 == IF w1._reconnectTimer # 0
              THEN [ClearTimeout(w1, "reconnect") EXCEPT !._reconnectTimer = 0]
              ELSE w1
        w3 == [w2 EXCEPT !._host = 0]
        w4 == IF w3._sock # 0
              THEN LET s == SdrCurSock(w3)
                   IN SdrSetSock(SdrClearSockRef(w3), [s EXCEPT !.cur = FALSE],
                                 [s EXCEPT !.cur = FALSE, !.ended = TRUE, !.dtimer = DestroyDelay])
              ELSE w3
    IN [w4 EXCEPT !.connected = FALSE, !._cwBound = FALSE]

\* connect(host)
SdrConnect(w) == SdrDoConnect([SdrDisconnect(w) EXCEPT !._host = 1])

\* sock.on('connect')
SdrOnConnect(w) ==
    LET w1 == [w EXCEPT !.connected = TRUE, !._cwBound = FALSE,
                        !._discoveredGuiClients = <<>>, !._cwKeyIndex = 0,
                        !.foreign = {}]
        w2 == SdrSend(w1, Cmd("sub client all", "", 0, 0))
        w3 == IF w2._needsCw THEN SetTimeout(w2, "bind", BindDelay, FALSE) ELSE w2
    IN Emit(w3, "connected")

\* sock.on('error')
SdrOnError(w) == Emit(w, "error")

\* a faulty close handler, to test C8: a reconnect is scheduled only when an
\* established connection is lost, not after a failed connection attempt
SdrOnCloseWasConnected(w) ==
    LET wasConnected == w.connected
        w1 == [SdrClearSockRef(w) EXCEPT !.connected = FALSE, !._cwBound = FALSE]
    IN IF wasConnected THEN SdrScheduleReconnect(Emit(w1, "disconnected")) ELSE w1

\* sock.on('close')
SdrOnClose(w) ==
    LET wasConnected == w.connected
        w1 == [SdrClearSockRef(w) EXCEPT !.connected = FALSE, !._cwBound = FALSE]
        w2 == IF wasConnected THEN Emit(w1, "disconnected") ELSE w1
    IN SdrScheduleReconnect(w2)

\* a faulty timer callback, to test C36: _host is not looked at
SdrReconnectFiredAnyHost(w) ==
    LET w1 == [w EXCEPT !._reconnectTimer = 0]
    IN IF ~w1.connected THEN SdrDoConnect(w1) ELSE w1

\* the callback of the reconnect timer
SdrReconnectFired(w) ==
    LET w1 == [w EXCEPT !._reconnectTimer = 0]
    IN IF ~w1.connected /\ w1._host # 0 THEN SdrDoConnect(w1) ELSE w1

\* _parseStatusMessage: S<handle>|client 0x<hex> connected ... client_id=<uuid>
SdrParseStatusMessage(w, clientId, handle) ==
    IF clientId # "" /\ clientId # w._persistentId /\ ~InSeq(clientId, w._discoveredGuiClients)
    THEN [w EXCEPT !._discoveredGuiClients = Append(@, clientId),
                   !._guiClientHandle = IF handle # 0 /\ @ = 0 THEN handle ELSE @]
    ELSE w

\* _handleLine for R<seq>|<hexStatus>|...
SdrHandleResponse(w, seq, status) ==
    IF w._bindSeq # 0 /\ seq = w._bindSeq
    THEN LET w1 == [w EXCEPT !._bindSeq = 0]
         IN IF status = 0
            THEN Emit([w1 EXCEPT !._cwBound = TRUE], "cw-auth bind")
            ELSE Emit(w1, "cw-auth unbound")
    ELSE IF status # 0 THEN Emit(w, "cmd-error") ELSE w


\* bytes of the inbound stream: a letter, carriage return and line feed
CR == "CR"
LF == "LF"
StreamBytes == {"V", CR, LF}

\* buf.indexOf('\n') from position i, counted from 1; 0 for none
RECURSIVE IndexOfLF(_, _)
IndexOfLF(buf, i) ==
    IF i > Len(buf) THEN 0 ELSE IF buf[i] = LF THEN i ELSE IndexOfLF(buf, i + 1)

\* line.replace(/\r$/, '')
StripCR(line) ==
    IF line # <<>> /\ line[Len(line)] = CR THEN SubSeq(line, 1, Len(line) - 1) ELSE line

\* the loop of the 'data' handler: the lines cut off the front of the buffer,
\* in order, and what is left of it
RECURSIVE SplitLines(_, _)
SplitLines(buf, lines) ==
    LET nl == IndexOfLF(buf, 1)
    IN IF nl = 0 THEN [rest |-> buf, lines |-> lines]
       ELSE SplitLines(SubSeq(buf, nl + 1, Len(buf)),
                       Append(lines, StripCR(SubSeq(buf, 1, nl - 1))))

\* sock.on('data') for a chunk of StreamBytes.  _handleLine changes nothing for
\* the lines these bytes make: a line that starts with V is logged, and the
\* others (empty, or starting with a carriage return) match no pattern
SdrOnData(w, chunk) ==
    LET r == SplitLines(w._buf \o chunk, <<>>)
    IN [w EXCEPT !._buf = r.rest, !.lines = r.lines]

-----------------------------------------------------------------------------
(* TciClient (src/unnamed/part_004) *)

\* this._ws = null
TciClearWsRef(w) ==
    [w EXCEPT !._ws = 0, !.socks = {[s EXCEPT !.cur = FALSE] : s \in @}]

\* the WebSocket this._ws refers to
TciCurWs(w) == CHOOSE s \in w.socks : s.cur

TciSetWs(w, s, s2) ==
    LET rest == w.socks \ {s}
    IN [w EXCEPT !.socks = rest \cup {[s2 EXCEPT !.n = FreshN(rest, [s2 EXCEPT !.n = 0])]}]

\* ws.readyState === WebSocket.OPEN: open, and close() not called on it
TciWsIsOpen(s) == s.st = "open" /\ ~s.ended

\* constructor
TciInit ==
    [ _ws |-> 0, _ready |-> FALSE, _reconnectTimer |-> 0, connected |-> FALSE,
      _host |-> "", _port |-> 0,
      _activeSpots |-> <<>>, _previousSpots |-> <<>>, _spotFreqs |-> [c \in Calls |-> 0],
      _pendingCmds |-> <<>>,
      socks |-> {}, timers |-> {},
      op |-> "new", stale |-> FALSE, written |-> <<>>, dropped |-> 0, emitted |-> <<>>,
      cycCur |-> {}, cycPrev |-> {} ]

\* _wsSend: ws.send(cmd) when the socket is open, else the command is dropped
TciWsSend(w, cmd) ==
    IF w._ws # 0 /\ TciWsIsOpen(TciCurWs(w))
    THEN [w EXCEPT !.written = Append(@, cmd)]
    ELSE [w EXCEPT !.dropped = @ + 1]

\* _send
TciSend(w, cmd) ==
    IF ~w.connected THEN [w EXCEPT !.dropped = @ + 1]
    ELSE IF ~w._ready THEN [w EXCEPT !._pendingCmds = Append(@, cmd)]
    ELSE TciWsSend(w, cmd)

TciCmd(c, call, x) == [c |-> c, call |-> call, x |-> x]

\* Math.round(x) for x >= 0 given in tenths
RoundTenths(x10) == (x10 + 5) \div 10

\* addSpot({callsign, frequency, ...}); parseFloat(frequency) is in kHz and is
\* given here in units of 0.0001 kHz, so that freqKHz * 1000 is in tenths of Hz
TciAddSpot(w, call, freqKHz) ==
    IF freqKHz = 0 THEN w
    ELSE IF call = "" THEN w
    ELSE LET freqHz == RoundTenths(freqKHz)
             prevFreq == w._spotFreqs[call]
             w1 == IF prevFreq # 0 /\ Abs(prevFreq - freqHz) > TciFreqThresholdHz
                   THEN TciSend(w, TciCmd("spot_delete", call, 0))
                   ELSE w
             w2 == TciSend(w1, TciCmd("spot", call, freqHz))
         IN [w2 EXCEPT !._activeSpots = SetAdd(@, call), !._spotFreqs[call] = freqHz]

\* the loop of pruneStaleSpots over _previousSpots, in insertion order
RECURSIVE TciPruneLoop(_, _)
TciPruneLoop(w, calls) ==
    IF calls = <<>> THEN w
    ELSE LET call == Head(calls)
             w1 == IF ~InSeq(call, w._activeSpots)
                   THEN [TciSend(w, TciCmd("spot_delete", call, 0))
                            EXCEPT !._spotFreqs[call] = 0]
                   ELSE w
         IN TciPruneLoop(w1, Tail(calls))

TciPruneStaleSpots(w) ==
    LET w1 == TciPruneLoop(w, w._previousSpots)
    IN [w1 EXCEPT !._previousSpots = w1._activeSpots, !._activeSpots = <<>>]

RECURSIVE TciDeleteAll(_, _)
TciDeleteAll(w, calls) ==
    IF calls = <<>> THEN w
    ELSE TciDeleteAll(TciSend(w, TciCmd("spot_delete", Head(calls), 0)), Tail(calls))

TciClearSpots(w) ==
    [TciDeleteAll(TciDeleteAll(w, w._previousSpots), w._activeSpots)
        EXCEPT !._activeSpots = <<>>, !._previousSpots = <<>>,
               !._spotFreqs = [c \in Calls |-> 0]]

\* _scheduleReconnect
TciScheduleReconnect(w) ==
    IF w._reconnectTimer # 0 THEN w
    ELSE [SetTimeout(w, "reconnect", ReconnectDelay, TRUE) EXCEPT !._reconnectTimer = 1]

\* _doConnect: new WebSocket(url) throws on a URL it cannot parse
TciDoConnect(w) ==
    IF w._host = "bad host"
    THEN TciScheduleReconnect(Emit(w, "error"))
    ELSE LET w1 == TciClearWsRef(w)
             s0 == [cur |-> TRUE, st |-> "connecting", ended |-> FALSE, n |-> 0]
         IN [w1 EXCEPT !._ws = 1, !.socks = @ \cup {[s0 EXCEPT !.n = FreshN(w1.socks, s0)]}]

\* disconnect()
TciDisconnect(w) ==
    LET w1 == IF w._reconnectTimer # 0
              THEN [ClearTimeout(w, "reconnect") EXCEPT !._reconnectTimer = 0]
              ELSE w
        w2 == [w1 EXCEPT !._host = "", !._port = 0, !._ready = FALSE, !._pendingCmds = <<>>]
        w3 == IF w2._ws # 0
              THEN LET s == TciCurWs(w2)
                   IN TciSetWs(TciClearWsRef(w2), [s EXCEPT !.cur = FALSE],
                               [s EXCEPT !.cur = FALSE, !.ended = TRUE])
              ELSE w2
    IN [w3 EXCEPT !.connected = FALSE]

\* connect(host, port)
TciConnect(w, host) ==
    TciDoConnect([TciDisconnect(w) EXCEPT !._host = IF host = "" THEN "127.0.0.1" ELSE host,
                                          !._port = 50001])

\* ws.on('open')
TciOnOpen(w) == Emit([w EXCEPT !.connected = TRUE], "connected")

\* ws.on('error')
TciOnError(w) == Emit(w, "error")

\* ws.on('close')
TciOnClose(w) ==
    LET wasConnected == w.connected
        w1 == [TciClearWsRef(w) EXCEPT !.connected = FALSE, !._ready = FALSE]
        w2 == IF wasConnected THEN Emit(w1, "disconnected") ELSE w1
    IN TciScheduleReconnect(w2)

\* a faulty flush loop, to test C10: the buffer is written newest first
RECURSIVE TciFlushNewestFirst(_, _)
TciFlushNewestFirst(w, cmds) ==
    IF cmds = <<>> THEN w
    ELSE TciFlushNewestFirst(TciWsSend(w, cmds[Len(cmds)]), SubSeq(cmds, 1, Len(cmds) - 1))

\* the flush loop of _onMessage
RECURSIVE TciFlush(_, _)
TciFlush(w, cmds) ==
    IF cmds = <<>> THEN w ELSE TciFlush(TciWsSend(w, Head(cmds)), Tail(cmds))

\* _onMessage(msg), msg split on ';' into its non-empty, trimmed parts
RECURSIVE TciOnMessage(_, _)
TciOnMessage(w, parts) ==
    IF parts = <<>> THEN w
    ELSE LET w1 == IF Head(parts) = "ready"
                   THEN [TciFlush([w EXCEPT !._ready = TRUE], w._pendingCmds)
                            EXCEPT !._pendingCmds = <<>>]
                   ELSE w
         IN TciOnMessage(w1, Tail(parts))

\* the callback of the reconnect timer
TciReconnectFired(w) ==
    LET w1 == [w EXCEPT !._reconnectTimer = 0]
    IN IF ~w1.connected /\ w1._host # "" THEN TciDoConnect(w1) ELSE w1

----------------------------------------------------------------------------
(* WsjtxClient (src/lib/wsjtx.js) *)

\* connect(port): this.listenPort = port || 2237
DefaultListenPort == 2237
\* _resetHeartbeatTimeout: setTimeout(.., 30000)
HeartbeatTimeoutMs == 30000

\* instance ids and peers (address, port) of inbound datagrams
WsjtxIds == {"WSJT-X", "JTDX"}
WsjtxPeers == {[addr |-> "127.0.0.1", port |-> 50000], [addr |-> "192.168.1.5", port |-> 50001]}
\* message types the adapter parses; "OTHER" is any type the switch ignores
WsjtxTypes == {"HEARTBEAT", "STATUS", "DECODE", "CLEAR", "QSO_LOGGED", "CLOSE",
               "LOGGED_ADIF", "OTHER"}
\* types whose parser reads a mandatory field, and throws on a missing one;
\* the parsers of STATUS and DECODE read a mandatory field after their last
\* string, the others end with it
WsjtxParsed == {"HEARTBEAT", "STATUS", "DECODE", "QSO_LOGGED", "LOGGED_ADIF"}

\* inbound datagrams by form: shorter than 12 bytes; wrong magic; the header
\* without the id string; a header and a body cut short in a field of fixed
\* width or in the length of a string (truncated); a datagram cut short inside
\* the bytes of the last string its parser reads, which readUtf8 returns as
\* far as it goes (cutstring); well-formed (the id string of a datagram may be
\* empty)
WsjtxDatagrams ==
    [form : {"short", "badmagic", "noid"}, type : {"OTHER"}, id : {""},
     peer : WsjtxPeers]
    \cup [form : {"truncated", "cutstring"}, type : WsjtxTypes, id : WsjtxIds,
          peer : WsjtxPeers]
    \cup [form : {"ok"}, type : WsjtxTypes, id : WsjtxIds \cup {""}, peer : WsjtxPeers]

\* no datagram
WsjtxNoDatagram ==
    [form |-> "none", type |-> "OTHER", id |-> "", peer |-> [addr |-> "", port |-> 0]]

\* constructor; udp is the state of the dgram socket this.socket refers to; rx
\* records the input, not the adapter: the last datagram that was handled
WsjtxInit ==
    [ socket |-> 0, connected |-> FALSE, wsjtxId |-> "", wsjtxAddr |-> "", wsjtxPort |-> 0,
      listenPort |-> DefaultListenPort, heartbeatTimer |-> 0, heartbeatTimeout |-> 0,
      _highlightedCalls |-> <<>>,
      udp |-> "none", timers |-> {}, rx |-> WsjtxNoDatagram,
      op |-> "new", stale |-> FALSE, written |-> <<>>, emitted |-> <<>> ]

\* disconnect(); socket.close() ends the delivery of events of that socket
WsjtxDisconnect(w) ==
    LET w1 == [w EXCEPT !.connected = FALSE, !.wsjtxId = "", !.wsjtxAddr = "",
                        !.wsjtxPort = 0, !._highlightedCalls = <<>>]
        w2 == IF w1.heartbeatTimer # 0
              THEN [ClearTimeout(w1, "heartbeatInterval") EXCEPT !.heartbeatTimer = 0]
              ELSE w1
        w3 == IF w2.heartbeatTimeout # 0
              THEN [ClearTimeout(w2, "heartbeat") EXCEPT !.heartbeatTimeout = 0]
              ELSE w2
    IN IF w3.socket # 0 THEN [w3 EXCEPT !.socket = 0, !.udp = "none"] ELSE w3

\* connect(port); port = 0 stands for a missing argument
WsjtxConnect(w, port) ==
    LET w1 == WsjtxDisconnect([w EXCEPT !.listenPort = IF port = 0 THEN DefaultListenPort
                                                       ELSE port])
    IN [w1 EXCEPT !.socket = 1, !.udp = "binding"]

\* the callback of socket.bind
WsjtxOnListening(w) == Emit(w, "status listening")

\* socket.on('error')
WsjtxOnError(w) == Emit(w, "error")

\* _send(buf)
WsjtxSend(w, msg) ==
    IF w.socket = 0 \/ w.wsjtxAddr = "" \/ w.wsjtxPort = 0 THEN w
    ELSE [w EXCEPT !.written = Append(@, [msg |-> msg, addr |-> w.wsjtxAddr,
                                          port |-> w.wsjtxPort])]

\* a faulty _resetHeartbeatTimeout, to test C4: the pending timeout is not
\* cleared before the new one is armed
WsjtxResetHeartbeatTimeoutNoClear(w) ==
    [SetTimeout(w, "heartbeat", HeartbeatTimeoutMs, TRUE) EXCEPT !.heartbeatTimeout = 1]

\* _resetHeartbeatTimeout
WsjtxResetHeartbeatTimeout(w) ==
    LET w1 == IF w.heartbeatTimeout # 0 THEN ClearTimeout(w, "heartbeat") ELSE w
    IN [SetTimeout(w1, "heartbeat", HeartbeatTimeoutMs, TRUE) EXCEPT !.heartbeatTimeout = 1]

\* a faulty timeout callback, to test C14: the session id and the highlighted
\* set outlive the session
WsjtxHeartbeatTimedOutKeepsSession(w) ==
    IF w.connected THEN Emit([w EXCEPT !.connected = FALSE], "status listening") ELSE w

\* the callback of the heartbeat timeout; it leaves this.heartbeatTimeout set
WsjtxHeartbeatTimedOut(w) ==
    IF w.connected
    THEN Emit([w EXCEPT !.connected = FALSE, !.wsjtxId = "", !._highlightedCalls = <<>>],
              "status listening")
    ELSE w

\* a faulty switch, to test C13: a DECODE packet makes the adapter Connected
WsjtxDispatchDecodeConnects(w, type, id) ==
    CASE type = "HEARTBEAT" ->
           LET w1 == [w EXCEPT !.wsjtxId = id]
               w2 == IF ~w1.connected
                     THEN Emit([w1 EXCEPT !.connected = TRUE], "status connected")
                     ELSE w1
           IN WsjtxSend(WsjtxResetHeartbeatTimeout(w2), [c |-> "HEARTBEAT", id |-> id, call |-> ""])
      [] type = "STATUS" ->
           LET w1 == WsjtxResetHeartbeatTimeout([w EXCEPT !.wsjtxId = id])
               w2 == IF ~w1.connected
                     THEN Emit([w1 EXCEPT !.connected = TRUE], "status connected")
                     ELSE w1
           IN Emit(w2, "wsjtx-status")
      [] type = "DECODE" -> Emit([w EXCEPT !.wsjtxId = id, !.connected = TRUE], "decode")
      [] type = "CLEAR" -> Emit(w, "clear")
      [] type = "QSO_LOGGED" -> Emit(w, "qso-logged")
      [] type = "CLOSE" ->
           Emit([w EXCEPT !.connected = FALSE, !.wsjtxId = "", !._highlightedCalls = <<>>],
                "status listening")
      [] type = "LOGGED_ADIF" -> Emit(w, "logged-adif")
      [] OTHER -> w

\* the switch of _handleMessage on a body that parses
WsjtxDispatch(w, type, id) ==
    CASE type = "HEARTBEAT" ->
           LET w1 == [w EXCEPT !.wsjtxId = id]
               w2 == IF ~w1.connected
                     THEN Emit([w1 EXCEPT !.connected = TRUE], "status connected")
                     ELSE w1
           IN WsjtxSend(WsjtxResetHeartbeatTimeout(w2), [c |-> "HEARTBEAT", id |-> id, call |-> ""])
      [] type = "STATUS" ->
           LET w1 == WsjtxResetHeartbeatTimeout([w EXCEPT !.wsjtxId = id])
               w2 == IF ~w1.connected
                     THEN Emit([w1 EXCEPT !.connected = TRUE], "status connected")
                     ELSE w1
           IN Emit(w2, "wsjtx-status")
      [] type = "DECODE" -> Emit(w, "decode")
      [] type = "CLEAR" -> Emit(w, "clear")
      [] type = "QSO_LOGGED" -> Emit(w, "qso-logged")
      [] type = "CLOSE" ->
           Emit([w EXCEPT !.connected = FALSE, !.wsjtxId = "", !._highlightedCalls = <<>>],
                "status listening")
      [] type = "LOGGED_ADIF" -> Emit(w, "logged-adif")
      [] OTHER -> w

\* a faulty _handleMessage, to test C15: the first sender stays the destination
WsjtxHandleMessageKeepsPeer(w, m) ==
    IF m.form \in {"short", "badmagic"} THEN w
    ELSE IF m.form = "noid" THEN Emit(w, "error")
    ELSE LET w1 == IF w.wsjtxAddr = ""
                   THEN [w EXCEPT !.wsjtxAddr = m.peer.addr, !.wsjtxPort = m.peer.port]
                   ELSE w
         IN IF m.form = "truncated" /\ m.type \in WsjtxParsed THEN Emit(w1, "error")
            ELSE IF m.form = "cutstring" /\ m.type \in {"STATUS", "DECODE"}
            THEN Emit(w1, "error")
            ELSE WsjtxDispatch(w1, m.type, m.id)

\* socket.on('message'): _handleMessage(buf, rinfo) inside try/catch
WsjtxHandleMessage(w, m) ==
    IF m.form \in {"short", "badmagic"} THEN w
    ELSE IF m.form = "noid" THEN Emit(w, "error")
    ELSE LET w1 == IF w.wsjtxAddr = "" \/ w.wsjtxAddr # m.peer.addr
                      \/ w.wsjtxPort # m.peer.port
                   THEN [w EXCEPT !.wsjtxAddr = m.peer.addr, !.wsjtxPort = m.peer.port]
                   ELSE w
         IN IF m.form = "truncated" /\ m.type \in WsjtxParsed THEN Emit(w1, "error")
            ELSE IF m.form = "cutstring" /\ m.type \in {"STATUS", "DECODE"}
            THEN Emit(w1, "error")
            ELSE WsjtxDispatch(w1, m.type, m.id)

\* a faulty haltTx, to test C16: the session id is not looked at
WsjtxHaltTxNoGuard(w) == WsjtxSend(w, [c |-> "HALT_TX", id |-> w.wsjtxId, call |-> ""])

\* haltTx(autoTxOnly)
WsjtxHaltTx(w) ==
    IF w.wsjtxId = "" THEN w
    ELSE WsjtxSend(w, [c |-> "HALT_TX", id |-> w.wsjtxId, call |-> ""])

\* reply(decode, modifiers)
WsjtxReply(w) ==
    IF w.wsjtxId = "" THEN w
    ELSE WsjtxSend(w, [c |-> "REPLY", id |-> w.wsjtxId, call |-> ""])

\* highlightCallsign(callsign, bgColor, fgColor); colored: bgColor || fgColor
WsjtxHighlightCallsign(w, call, colored) ==
    IF w.wsjtxId = "" THEN w
    ELSE LET w1 == WsjtxSend(w, [c |-> IF colored THEN "HIGHLIGHT" ELSE "UNHIGHLIGHT",
                                 id |-> w.wsjtxId, call |-> call])
         IN [w1 EXCEPT !._highlightedCalls =
                          IF colored THEN SetAdd(@, call)
                          ELSE SelectSeq(@, LAMBDA c : c # call)]

RECURSIVE WsjtxClearLoop(_, _)
WsjtxClearLoop(w, calls) ==
    IF calls = <<>> THEN w
    ELSE WsjtxClearLoop(WsjtxSend(w, [c |-> "UNHIGHLIGHT", id |-> w.wsjtxId,
                                      call |-> Head(calls)]), Tail(calls))

\* clearHighlights()
WsjtxClearHighlights(w) ==
    IF w.wsjtxId = "" THEN w
    ELSE [WsjtxClearLoop(w, w._highlightedCalls) EXCEPT !._highlightedCalls = <<>>]

----------------------------------------------------------------------------
(* PskrClient (src/lib/wwff-respot.js) *)

PollInterval == 300000
BackoffInterval == 600000

\* constructor; reqs is the number of HTTPS requests in flight (their callbacks
\* hold nothing but `this`); rx records the input, not the adapter: the status
\* code of the last response that ended, -1 for a request that failed; said is
\* what a listener has heard: the last two status events emitted; old is how
\* many of the requests in flight were issued before the last disconnect()
PskrInit ==
    [ _pollTimer |-> 0, _active |-> FALSE, connected |-> FALSE,
      reqs |-> 0, timers |-> {}, rx |-> 0, said |-> <<>>, old |-> 0,
      op |-> "new", stale |-> FALSE, written |-> <<>>, emitted |-> <<>> ]

\* disconnect(); requests in flight are not aborted
PskrDisconnect(w) ==
    LET w1 == [w EXCEPT !._active = FALSE]
        w2 == IF w1._pollTimer # 0
              THEN [ClearTimeout(w1, "poll") EXCEPT !._pollTimer = 0]
              ELSE w1
    IN [w2 EXCEPT !.connected = FALSE, !.old = w.reqs]

\* _poll()
PskrPoll(w) ==
    IF ~w._active THEN w
    ELSE [Emit(w, "log") EXCEPT !.reqs = @ + 1, !.written = Append(@, "GET query")]

\* connect()
PskrConnect(w) == PskrPoll([PskrDisconnect(w) EXCEPT !._active = TRUE])

\* a faulty _schedulePoll, to test C7: a pending poll timer is not looked for
PskrSchedulePollNoGuard(w, interval) ==
    IF ~w._active THEN w
    ELSE [SetTimeout(w, "poll", interval, TRUE) EXCEPT !._pollTimer = 1]

\* _schedulePoll(interval)
PskrSchedulePoll(w, interval) ==
    IF ~w._active \/ w._pollTimer # 0 THEN w
    ELSE [SetTimeout(w, "poll", interval, TRUE) EXCEPT !._pollTimer = 1]

\* the callback of the poll timer
PskrPollFired(w) == PskrPoll([w EXCEPT !._pollTimer = 0])

RECURSIVE PskrEmitSpots(_, _)
PskrEmitSpots(w, n) == IF n = 0 THEN w ELSE PskrEmitSpots(Emit(w, "spot"), n - 1)

\* res.on('end') with the status code and the number of reception reports of
\* the body that carry a callsign and a frequency
PskrOnResponse(w, statusCode, reports) ==
    IF ~w._active THEN w
    ELSE IF statusCode = 200
    THEN LET wasDisconnected == ~w.connected
             w1 == PskrEmitSpots([w EXCEPT !.connected = TRUE], reports)
             w2 == IF wasDisconnected THEN Emit(w1, "status connected") ELSE w1
         IN PskrSchedulePoll(w2, PollInterval)
    ELSE IF statusCode = 503
    THEN PskrSchedulePoll(Emit(w, "error"), BackoffInterval)
    ELSE LET w1 == Emit(w, "error")
             w2 == IF w1.connected
                   THEN Emit([w1 EXCEPT !.connected = FALSE], "status disconnected")
                   ELSE w1
         IN PskrSchedulePoll(w2, PollInterval)

\* a faulty error handler, to test C18: the next poll comes after the normal
\* interval
PskrOnErrorNormalInterval(w) ==
    IF ~w._active THEN w
    ELSE LET w1 == Emit(w, "error")
             w2 == IF w1.connected
                   THEN Emit([w1 EXCEPT !.connected = FALSE], "status disconnected")
                   ELSE w1
         IN PskrSchedulePoll(w2, PollInterval)

\* req.on('error'), also after req.destroy() on a timeout
PskrOnError(w) ==
    IF ~w._active THEN w
    ELSE LET w1 == Emit(w, "error")
             w2 == IF w1.connected
                   THEN Emit([w1 EXCEPT !.connected = FALSE], "status disconnected")
                   ELSE w1
         IN PskrSchedulePoll(w2, BackoffInterval)

----------------------------------------------------------------------------
(* SmartSDR: the steps of the host and of the runtime *)

\* the handler has run: pttWire follows the last cw ptt command it wrote
SdrWire(w) ==
    LET ptts == SelectSeq(w.written, LAMBDA e : e.cmd.c = "cw ptt")
    IN IF ptts = <<>> THEN w ELSE [w EXCEPT !.pttWire = (ptts[Len(ptts)].cmd.x = 1)]

SdrSeqOk(w) == w._seq <= MaxSeq
SdrKeyOk(w) == w._cwKeyIndex < MaxKeyIndex
\* bind timers are never cancelled
SdrBindTimersOk(w) == ~w._needsCw \/ Cardinality(PendingTimers(w, "bind")) < MaxTimers

SdrCallConnect ==
    /\ adapter = "smartsdr"
    /\ Cardinality(sdr.socks) < MaxSocks
    /\ SdrSeqOk(sdr) /\ SdrKeyOk(sdr)
    /\ sdr' = SdrWire(SdrConnect(Begin(sdr, "connect", FALSE)))

\* connect(host) while the socket of an earlier connect() is still there
SdrCallConnectAgain ==
    /\ adapter = "smartsdr"
    /\ Cardinality(sdr.socks) = MaxSocks
    /\ SdrSeqOk(sdr) /\ SdrKeyOk(sdr)
    /\ sdr' = SdrWire(SdrConnect(Begin(sdr, "connect", FALSE)))

SdrCallDisconnect ==
    /\ adapter = "smartsdr"
    /\ SdrSeqOk(sdr) /\ SdrKeyOk(sdr)
    /\ sdr' = SdrWire(SdrDisconnect(Begin(sdr, "disconnect", FALSE)))

SdrCallAddSpot ==
    /\ adapter = "smartsdr"
    /\ SdrSeqOk(sdr)
    /\ \E call \in Calls \cup {""}, f \in Freqs \cup {0} :
         sdr' = [SdrAddSpot(Begin(sdr, "addSpot", FALSE), call, f)
                   EXCEPT !.cycCur = IF call # "" /\ f # 0 THEN @ \cup {call} ELSE @]

SdrCallPruneStaleSpots ==
    /\ adapter = "smartsdr"
    /\ SdrSeqOk(sdr)
    /\ sdr' = [SdrPruneStaleSpots(Begin(sdr, "pruneStaleSpots", FALSE))
                 EXCEPT !.cycPrev = sdr.cycCur, !.cycCur = {}]

SdrCallClearSpots ==
    /\ adapter = "smartsdr"
    /\ SdrSeqOk(sdr)
    /\ sdr' = [SdrClearSpots(Begin(sdr, "clearSpots", FALSE))
                 EXCEPT !.cycPrev = {}, !.cycCur = {}]

SdrCallCwKey ==
    /\ adapter = "smartsdr"
    /\ SdrSeqOk(sdr) /\ SdrKeyOk(sdr)
    /\ \E down \in BOOLEAN : sdr' = SdrCwKey(Begin(sdr, "cwKey", FALSE), down)

\* cwKey(down), also as the one write after the last that the other handlers
\* start with
SdrCallCwKeyNext ==
    /\ adapter = "smartsdr"
    /\ sdr._seq <= MaxSeq + 1 /\ SdrKeyOk(sdr)
    /\ \E down \in BOOLEAN : sdr' = SdrCwKey(Begin(sdr, "cwKey", FALSE), down)

\* a millisecond passes
ClockTick ==
    /\ clock < ClockStart + MaxTicks
    /\ clock' = clock + 1
    /\ UNCHANGED <<adapter, sdr, tci, wsjtx, pskr, respot, codec>>

SdrCallCwPttOn ==
    /\ adapter = "smartsdr"
    /\ SdrSeqOk(sdr) /\ SdrKeyOk(sdr)
    /\ sdr' = SdrWire(SdrCwPttOn(Begin(sdr, "cwPttOn", FALSE)))

SdrCallCwPttRelease ==
    /\ adapter = "smartsdr"
    /\ SdrSeqOk(sdr) /\ SdrKeyOk(sdr)
    /\ sdr' = SdrWire(SdrCwPttRelease(Begin(sdr, "cwPttRelease", FALSE)))

SdrCallCwStop ==
    /\ adapter = "smartsdr"
    /\ SdrSeqOk(sdr) /\ sdr._cwKeyIndex + 1 < MaxKeyIndex
    /\ sdr' = SdrWire(SdrCwStop(Begin(sdr, "cwStop", FALSE)))

SdrCallSetNeedsCw ==
    /\ adapter = "smartsdr"
    /\ SdrSeqOk(sdr)
    /\ \E needs \in BOOLEAN : sdr' = SdrSetNeedsCw(Begin(sdr, "setNeedsCw", FALSE), needs)

SdrCallSetPersistentId ==
    /\ adapter = "smartsdr"
    /\ \E id \in {OwnClientId, ""} :
         sdr' = SdrSetPersistentId(Begin(sdr, "setPersistentId", FALSE), id)

\* the TCP connection is established
SdrSockConnect ==
    /\ adapter = "smartsdr"
    /\ SdrSeqOk(sdr)
    /\ SdrBindTimersOk(sdr)
    /\ \E s \in sdr.socks :
         /\ s.st = "connecting"
         /\ sdr' = SdrOnConnect(SdrSetSock(Begin(sdr, "sock connect", s.ended), s,
                                           [s EXCEPT !.st = "open"]))

\* a socket error (a failed connection attempt, a reset): 'error' and then
\* 'close' are emitted in the same tick
SdrSockError ==
    /\ adapter = "smartsdr"
    /\ \E s \in SdrLive(sdr) :
         sdr' = SdrOnClose(SdrOnError(SdrDropSock(Begin(sdr, "sock error", s.ended), s)))

\* an established connection is closed by the peer, or after our end()
SdrSockClose ==
    /\ adapter = "smartsdr"
    /\ \E s \in sdr.socks :
         /\ s.st = "open"
         /\ sdr' = SdrOnClose(SdrDropSock(Begin(sdr, "sock close", s.ended), s))

\* a status broadcast line arrives, on the socket in use or on an earlier one
SdrSockDataStatus ==
    /\ adapter = "smartsdr"
    /\ \E s \in sdr.socks, clientId \in ClientIds \cup {""}, handle \in {0, 78} :
         /\ s.st = "open"
         /\ LET w == SdrParseStatusMessage(Begin(sdr, "sock data", s.ended), clientId, handle)
            IN sdr' = IF ~s.cur /\ w._discoveredGuiClients # sdr._discoveredGuiClients
                      THEN [w EXCEPT !.foreign = @ \cup {clientId}]
                      ELSE w

\* the chunks the 'data' event brings
Chunks == UNION {[1..n -> StreamBytes] : n \in 1..MaxChunk}

\* a chunk of bytes arrives, on the socket in use or on an earlier one
SdrSockDataChunk ==
    /\ adapter = "smartsdr"
    /\ \E s \in sdr.socks, chunk \in Chunks :
         /\ s.st = "open"
         /\ Len(s.rx) + Len(chunk) <= MaxBuf
         /\ Len(sdr._buf) + Len(chunk) <= MaxBuf
         /\ LET w == SdrOnData(Begin(sdr, "sock chunk", s.ended), chunk)
            IN sdr' = SdrSetSock(w, s, [s EXCEPT !.rx = @ \o chunk, !.got = @ \o w.lines])

\* a command response line arrives
SdrSockDataResponse ==
    /\ adapter = "smartsdr"
    /\ \E s \in sdr.socks, seq \in 1..sdr._seq, status \in {0, 1} :
         /\ s.st = "open"
         /\ sdr' = SdrHandleResponse(Begin(sdr, "sock data", s.ended), seq, status)

SdrTimerReconnect ==
    /\ adapter = "smartsdr"
    /\ \E t \in PendingTimers(sdr, "reconnect") :
         sdr' = SdrReconnectFired(Fire(Begin(sdr, "timer reconnect", FALSE), t))

SdrTimerCwPtt ==
    /\ adapter = "smartsdr"
    /\ SdrSeqOk(sdr) /\ SdrKeyOk(sdr)
    /\ \E t \in PendingTimers(sdr, "cwPtt") :
         sdr' = SdrWire(SdrCwPttRelease(Fire(Begin(sdr, "timer cwPtt", FALSE), t)))

SdrTimerBind ==
    /\ adapter = "smartsdr"
    /\ SdrSeqOk(sdr)
    /\ \E t \in PendingTimers(sdr, "bind") :
         sdr' = SdrTryClientBind(Fire(Begin(sdr, "timer bind", FALSE), t))

\* the delayed sock.destroy() of disconnect(): a connection that is not closed
\* yet is closed now, and its 'close' handler runs
SdrTimerDestroy ==
    /\ adapter = "smartsdr"
    /\ \E s \in sdr.socks :
         /\ s.dtimer # 0
         /\ LET w == Begin(sdr, "timer destroy", TRUE)
            IN sdr' = IF s.st = "closed"
                      THEN [w EXCEPT !.socks = @ \ {s}]
                      ELSE SdrOnClose([w EXCEPT !.socks = @ \ {s}])

SdrCallTuneSlice ==
    /\ adapter = "smartsdr"
    /\ SdrSeqOk(sdr)
    /\ \E f \in Freqs, mode \in {"", "CW", "USB"}, filterWidth \in {0, 500} :
         sdr' = SdrTuneSlice(Begin(sdr, "tuneSlice", FALSE), 0, f, mode, filterWidth)

SdrCallSetCwSpeed ==
    /\ adapter = "smartsdr"
    /\ SdrSeqOk(sdr)
    /\ \E wpm \in {20, 25} : sdr' = SdrSetCwSpeed(Begin(sdr, "setCwSpeed", FALSE), wpm)

NextSdrLife ==
    \/ SdrCallConnect \/ SdrCallDisconnect
    \/ SdrSockConnect \/ SdrSockError \/ SdrSockClose
    \/ SdrTimerReconnect \/ SdrTimerDestroy

NextSdrSpots == SdrCallAddSpot \/ SdrCallPruneStaleSpots \/ SdrCallClearSpots

NextSdrCw ==
    \/ SdrCallCwKey \/ SdrCallCwPttOn \/ SdrCallCwPttRelease \/ SdrCallCwStop
    \/ SdrTimerCwPtt

NextSdrBind ==
    \/ SdrCallSetNeedsCw \/ SdrSockDataStatus \/ SdrSockDataResponse \/ SdrTimerBind
    \/ SdrCallSetPersistentId



----------------------------------------------------------------------------
(* TCI: the steps of the host and of the runtime *)

\* dropped: the number of commands the handler has dropped
TciBegin(w, op, stale) == [Begin(w, op, stale) EXCEPT !.dropped = 0]

TciCmdsOk(w) == Len(w._pendingCmds) < MaxCmds

\* inbound messages: sequences of ';'-separated parts
TciMessages == {<<"ready">>, <<"vfo:0,0,14074000">>, <<"protocol:esdr,1.9">>,
                <<"protocol:esdr,1.9", "ready">>}

TciCallConnect ==
    /\ adapter = "tci"
    /\ Cardinality(tci.socks) < MaxSocks
    /\ \E host \in {"", "127.0.0.1"} :
         tci' = TciConnect(TciBegin(tci, "connect", FALSE), host)

\* connect() with a host that makes new WebSocket(url) throw
TciCallConnectBadUrl ==
    /\ adapter = "tci"
    /\ tci' = TciConnect(TciBegin(tci, "connect", FALSE), "bad host")

TciCallDisconnect ==
    /\ adapter = "tci"
    /\ tci' = (TciDisconnect(TciBegin(tci, "disconnect", FALSE)))

TciCallAddSpot ==
    /\ adapter = "tci"
    /\ TciCmdsOk(tci)
    /\ \E call \in Calls \cup {""}, f \in FreqsKHz \cup {0} :
         tci' = ([TciAddSpot(TciBegin(tci, "addSpot", FALSE), call, f * 10000)
                   EXCEPT !.cycCur = IF call # "" /\ f # 0 THEN @ \cup {call} ELSE @])

TciCallPruneStaleSpots ==
    /\ adapter = "tci"
    /\ TciCmdsOk(tci)
    /\ tci' = ([TciPruneStaleSpots(TciBegin(tci, "pruneStaleSpots", FALSE))
                 EXCEPT !.cycPrev = tci.cycCur, !.cycCur = {}])

TciCallClearSpots ==
    /\ adapter = "tci"
    /\ TciCmdsOk(tci)
    /\ tci' = ([TciClearSpots(TciBegin(tci, "clearSpots", FALSE))
                 EXCEPT !.cycPrev = {}, !.cycCur = {}])

\* the WebSocket handshake completes
TciWsOpen ==
    /\ adapter = "tci"
    /\ \E s \in tci.socks :
         /\ s.st = "connecting" /\ ~s.ended
         /\ tci' = (TciOnOpen(TciSetWs(TciBegin(tci, "ws open", s.ended), s,
                                             [s EXCEPT !.st = "open"])))

\* a text message arrives (also on a socket we have sent a close frame on)
TciWsMessage ==
    /\ adapter = "tci"
    /\ \E s \in tci.socks, msg \in TciMessages :
         /\ s.st = "open"
         /\ tci' = (TciOnMessage(TciBegin(tci, "ws message", s.ended), msg))

\* the peer's close frame arrives, or the TCP socket fails: readyState becomes
\* CLOSING, and 'close' is emitted once the TCP socket is closed
TciWsClosing ==
    /\ adapter = "tci"
    /\ \E s \in tci.socks :
         /\ s.st = "open"
         /\ tci' = (TciSetWs(TciBegin(tci, "ws closing", s.ended), s,
                                   [s EXCEPT !.st = "closing"]))

\* the handshake fails, or close() was called before it completed: 'error' and
\* then 'close'
TciWsError ==
    /\ adapter = "tci"
    /\ \E s \in tci.socks :
         /\ s.st = "connecting"
         /\ tci' = (TciOnClose(TciOnError(
                       [TciBegin(tci, "ws error", s.ended) EXCEPT !.socks = @ \ {s}])))

TciWsClose ==
    /\ adapter = "tci"
    /\ \E s \in tci.socks :
         /\ s.st \in {"open", "closing"}
         /\ tci' = (TciOnClose(
                       [TciBegin(tci, "ws close", s.ended) EXCEPT !.socks = @ \ {s}]))

TciTimerReconnect ==
    /\ adapter = "tci"
    /\ \E t \in PendingTimers(tci, "reconnect") :
         tci' = (TciReconnectFired(Fire(TciBegin(tci, "timer reconnect", FALSE), t)))

NextTciLife ==
    \/ TciCallConnect \/ TciCallConnectBadUrl \/ TciCallDisconnect
    \/ TciWsOpen \/ TciWsMessage \/ TciWsClosing \/ TciWsError \/ TciWsClose
    \/ TciTimerReconnect

NextTciSpots == TciCallAddSpot \/ TciCallPruneStaleSpots \/ TciCallClearSpots


NextTciConn ==
    \/ TciCallConnect \/ TciCallDisconnect
    \/ TciWsOpen \/ TciWsMessage \/ TciWsClosing \/ TciWsError \/ TciWsClose
    \/ TciTimerReconnect

----------------------------------------------------------------------------
(* WSJT-X: the steps of the host and of the runtime *)

WsjtxCallConnect ==
    /\ adapter = "wsjtx"
    /\ \E port \in {0, 2238} : wsjtx' = WsjtxConnect(Begin(wsjtx, "connect", FALSE), port)

WsjtxCallDisconnect ==
    /\ adapter = "wsjtx"
    /\ wsjtx' = WsjtxDisconnect(Begin(wsjtx, "disconnect", FALSE))

\* the socket is bound: the bind callback runs
WsjtxSockListening ==
    /\ adapter = "wsjtx"
    /\ wsjtx.udp = "binding"
    /\ wsjtx' = WsjtxOnListening([Begin(wsjtx, "sock listening", FALSE) EXCEPT !.udp = "bound"])

\* the bind fails (address in use)
WsjtxSockError ==
    /\ adapter = "wsjtx"
    /\ wsjtx.udp = "binding"
    /\ wsjtx' = WsjtxOnError([Begin(wsjtx, "sock error", FALSE) EXCEPT !.udp = "failed"])

\* a datagram arrives
WsjtxSockMessage ==
    /\ adapter = "wsjtx"
    /\ wsjtx.udp = "bound"
    /\ \E m \in WsjtxDatagrams :
         wsjtx' = [WsjtxHandleMessage(Begin(wsjtx, "sock message", FALSE), m)
                     EXCEPT !.rx = m]

WsjtxTimerHeartbeat ==
    /\ adapter = "wsjtx"
    /\ \E t \in PendingTimers(wsjtx, "heartbeat") :
         wsjtx' = WsjtxHeartbeatTimedOut(Fire(Begin(wsjtx, "timer heartbeat", FALSE), t))

WsjtxCallReply ==
    /\ adapter = "wsjtx"
    /\ wsjtx' = WsjtxReply(Begin(wsjtx, "reply", FALSE))

WsjtxCallHaltTx ==
    /\ adapter = "wsjtx"
    /\ wsjtx' = WsjtxHaltTx(Begin(wsjtx, "haltTx", FALSE))

WsjtxCallHighlightCallsign ==
    /\ adapter = "wsjtx"
    /\ \E call \in Calls, colored \in BOOLEAN :
         wsjtx' = WsjtxHighlightCallsign(Begin(wsjtx, "highlightCallsign", FALSE), call, colored)

WsjtxCallClearHighlights ==
    /\ adapter = "wsjtx"
    /\ wsjtx' = WsjtxClearHighlights(Begin(wsjtx, "clearHighlights", FALSE))

NextWsjtxLife ==
    \/ WsjtxCallConnect \/ WsjtxCallDisconnect
    \/ WsjtxSockListening \/ WsjtxSockError \/ WsjtxSockMessage
    \/ WsjtxTimerHeartbeat

NextWsjtxCmds ==
    \/ WsjtxCallReply \/ WsjtxCallHaltTx
    \/ WsjtxCallHighlightCallsign \/ WsjtxCallClearHighlights

----------------------------------------------------------------------------
(* PSKReporter: the steps of the host and of the runtime *)

\* the listener of 'status': w after a step, with the status events of the
\* step heard
PskrHeard(w) ==
    LET st == SelectSeq(w.emitted, LAMBDA e : e \in {"status connected", "status disconnected"})
        all == w.said \o st
    IN [w EXCEPT !.said = IF Len(all) <= 2 THEN all ELSE SubSeq(all, Len(all) - 1, Len(all))]

PskrCallConnect ==
    /\ adapter = "pskr"
    /\ pskr.reqs < MaxReqs
    /\ pskr' = PskrHeard(PskrConnect(Begin(pskr, "connect", FALSE)))

PskrCallDisconnect ==
    /\ adapter = "pskr"
    /\ pskr' = PskrHeard(PskrDisconnect(Begin(pskr, "disconnect", FALSE)))

\* the request whose callback runs: one issued before the last disconnect()
\* (stale) or one issued after it
PskrTake(w, op, stale) ==
    [Begin(w, op, stale) EXCEPT !.reqs = @ - 1, !.old = IF stale THEN @ - 1 ELSE @]

PskrInFlight(w, stale) == IF stale THEN w.old > 0 ELSE w.reqs > w.old

\* a response ends
PskrHttpResponse ==
    /\ adapter = "pskr"
    /\ \E stale \in BOOLEAN, statusCode \in {200, 503, 404}, reports \in 0..1 :
         /\ PskrInFlight(pskr, stale)
         /\ pskr' = PskrHeard([PskrOnResponse(PskrTake(pskr, "http response", stale),
                                              statusCode, reports) EXCEPT !.rx = statusCode])

\* a request fails, or times out and is destroyed
PskrHttpError ==
    /\ adapter = "pskr"
    /\ \E stale \in BOOLEAN :
         /\ PskrInFlight(pskr, stale)
         /\ pskr' = PskrHeard([PskrOnError(PskrTake(pskr, "http error", stale))
                                 EXCEPT !.rx = -1])

\* req.on('timeout') after the response has begun: req.destroy() closes the
\* connection, the response never ends and the request reports no error, so
\* neither res.on('end') nor req.on('error') runs
PskrHttpTimeout ==
    /\ adapter = "pskr"
    /\ \E stale \in BOOLEAN :
         /\ PskrInFlight(pskr, stale)
         /\ pskr' = PskrHeard([PskrTake(pskr, "http timeout", stale) EXCEPT !.rx = -2])

PskrTimerPoll ==
    /\ adapter = "pskr"
    /\ \E t \in PendingTimers(pskr, "poll") :
         pskr' = PskrHeard(PskrPollFired(Fire(Begin(pskr, "timer poll", FALSE), t)))

NextPskr ==
    \/ PskrCallConnect \/ PskrCallDisconnect
    \/ PskrHttpResponse \/ PskrHttpError \/ PskrTimerPoll

----------------------------------------------------------------------------
(* postWwffRespot (src/lib/wwff-respot.js): one call *)

\* TIMEOUT, and the delay between the DX command and the end of the call, in ms
RespotTimeout == 10000
RespotDoneDelay == 1500

\* Input arrives in pieces; a buffer is the sequence of the pieces received.
\* "log" followed by "in:" reads login:, ">" is the prompt character and " "
\* is white space.
\* /login:|call:|Please enter your call/i.test(buf)
LoginMatch(buf) == \E i \in 1..(Len(buf) - 1) : buf[i] = "log" /\ buf[i + 1] = "in:"

\* />\s*$/.test(buf)
PromptMatch(buf) ==
    \E i \in 1..Len(buf) : buf[i] = ">" /\ \A j \in (i + 1)..Len(buf) : buf[j] = " "

\* the state when postWwffRespot has returned its promise: the socket is
\* connecting or open, the overall timer is armed.  settles counts the calls of
\* resolve and reject, wire is everything written to the socket so far, and
\* sock is the socket: "open", "errored" (its 'error' event has run),
\* "destroyed" or "closed" (its 'close' event has run).  rx and since record the
\* input, not the program: the piece that the last data event brought, and the
\* pieces received since the last write
RespotInit ==
    SetTimeout([ state |-> "login", buf |-> <<>>, settled |-> "pending", settles |-> 0,
                 sock |-> "open", wire |-> <<>>, timers |-> {}, rx |-> <<>>, since |-> <<>>,
                 op |-> "new", stale |-> FALSE, written |-> <<>>, emitted |-> <<>> ],
               "timeout", RespotTimeout, TRUE)

\* a faulty finish, to test C22: the settled flag is not tested
RespotFinishUnguarded(w, err) ==
    [w EXCEPT !.settled = IF err THEN "rejected" ELSE "resolved",
              !.settles = @ + 1,
              !.sock = IF @ = "closed" THEN @ ELSE "destroyed"]

\* finish(err)
RespotFinish(w, err) ==
    IF w.settled # "pending" THEN w
    ELSE [w EXCEPT !.settled = IF err THEN "rejected" ELSE "resolved",
                   !.settles = @ + 1,
                   !.sock = IF @ = "closed" THEN @ ELSE "destroyed"]

\* sock.write(...)
RespotWrite(w, line) == [w EXCEPT !.written = Append(@, line), !.wire = Append(@, line)]

\* a faulty data handler, to test C21: the buffer is not emptied when the
\* callsign is sent
RespotOnDataKeepsBuf(w, chunk) ==
    LET w1 == [w EXCEPT !.buf = @ \o chunk]
    IN IF w1.state = "login" /\ LoginMatch(w1.buf)
       THEN RespotWrite([w1 EXCEPT !.state = "prompt"], "spotter")
       ELSE IF w1.state = "prompt" /\ PromptMatch(w1.buf)
       THEN SetTimeout(RespotWrite([w1 EXCEPT !.state = "done", !.buf = <<>>], "DX"),
                       "delay", RespotDoneDelay, FALSE)
       ELSE w1

\* sock.on('data')
RespotOnData(w, chunk) ==
    LET w1 == [w EXCEPT !.buf = @ \o chunk]
    IN IF w1.state = "login" /\ LoginMatch(w1.buf)
       THEN RespotWrite([w1 EXCEPT !.state = "prompt", !.buf = <<>>], "spotter")
       ELSE IF w1.state = "prompt" /\ PromptMatch(w1.buf)
       THEN SetTimeout(RespotWrite([w1 EXCEPT !.state = "done", !.buf = <<>>], "DX"),
                       "delay", RespotDoneDelay, FALSE)
       ELSE w1

\* a piece of input arrives on the open socket
RespotSockData ==
    /\ adapter = "wwff"
    /\ respot.sock = "open"
    /\ \E a \in {"log", "in:", ">", " "}, b \in {"", "in:", ">", " "} :
         LET chunk == IF b = "" THEN <<a>> ELSE <<a, b>>
         IN /\ Len(respot.buf) + Len(chunk) <= MaxBuf
            /\ LET w2 == RespotOnData(Begin(respot, "data", FALSE), chunk)
               IN respot' = [w2 EXCEPT !.rx = chunk,
                                       !.since = IF w2.written # <<>> THEN <<>>
                                                 ELSE @ \o chunk]

\* sock.on('error'): the connection fails or breaks
RespotSockError ==
    /\ adapter = "wwff"
    /\ respot.sock = "open"
    /\ respot' = RespotFinish(ClearTimeout([Begin(respot, "error", FALSE)
                                               EXCEPT !.sock = "errored"], "timeout"), TRUE)

\* a faulty close handler, to test C23: a close before the DX command is a
\* failure
RespotSockCloseStrict ==
    /\ adapter = "wwff"
    /\ respot.sock # "closed"
    /\ respot' = RespotFinish(ClearTimeout([Begin(respot, "close", FALSE)
                                               EXCEPT !.sock = "closed"], "timeout"),
                              respot.state # "done")

\* sock.on('close'): after an error, after destroy(), or when the server ends
\* the connection
RespotSockClose ==
    /\ adapter = "wwff"
    /\ respot.sock # "closed"
    /\ respot' = RespotFinish(ClearTimeout([Begin(respot, "close", FALSE)
                                               EXCEPT !.sock = "closed"], "timeout"), FALSE)

\* the overall timer fires
RespotTimerTimeout ==
    /\ adapter = "wwff"
    /\ \E t \in PendingTimers(respot, "timeout") :
         respot' = RespotFinish(Fire(Begin(respot, "timer timeout", FALSE), t), TRUE)

\* the timer set after the DX command fires
RespotTimerDelay ==
    /\ adapter = "wwff"
    /\ \E t \in PendingTimers(respot, "delay") :
         respot' = RespotFinish(ClearTimeout(Fire(Begin(respot, "timer delay", FALSE), t),
                                             "timeout"), FALSE)

NextRespot ==
    /\ \/ RespotSockData \/ RespotSockError \/ RespotSockClose
       \/ RespotTimerTimeout \/ RespotTimerDelay
    /\ UNCHANGED <<adapter, sdr, tci, wsjtx, pskr, clock, codec>>

----------------------------------------------------------------------------
(* The WSJT-X codec (src/lib/wsjtx.js): BinaryWriter, BinaryReader, the message
   builders and parsers.  A buffer is a sequence of bytes; a string is a
   sequence of code points, Null stands for null; a reader is a buffer and an
   offset; a read gives the value and the reader after it *)

Null == [null |-> TRUE, cps |-> <<>>]
Str(cps) == [null |-> FALSE, cps |-> cps]

\* 0xADBCCBDA, as the bytes writeUInt32BE gives
MAGIC == <<173, 188, 203, 218>>
SCHEMA == 3
MSG == [HEARTBEAT |-> 0, REPLY |-> 4, HALT_TX |-> 8]

\* writeUInt32BE, for values below 2^31
UInt32BE(v) == <<v \div 16777216, (v \div 65536) % 256, (v \div 256) % 256, v % 256>>

\* writeInt32BE: two's complement
Int32BE(v) ==
    IF v >= 0 THEN UInt32BE(v)
    ELSE LET u == (2147483647 + v) + 1
         IN <<128 + (u \div 16777216), (u \div 65536) % 256, (u \div 256) % 256, u % 256>>

\* Buffer.from(s, 'utf-8'), code points below 0x800
RECURSIVE Utf8(_)
Utf8(cps) ==
    IF cps = <<>> THEN <<>>
    ELSE LET cp == Head(cps)
         IN (IF cp < 128 THEN <<cp>> ELSE <<192 + (cp \div 64), 128 + (cp % 64)>>)
            \o Utf8(Tail(cps))

\* buf.toString('utf-8', ...): sequences of one and two bytes, U+FFFD for a
\* byte that starts neither
RECURSIVE FromUtf8(_)
FromUtf8(b) ==
    IF b = <<>> THEN <<>>
    ELSE IF b[1] < 128 THEN <<b[1]>> \o FromUtf8(Tail(b))
    ELSE IF b[1] >= 192 /\ b[1] < 224 /\ Len(b) >= 2 /\ b[2] >= 128 /\ b[2] < 192
    THEN <<(b[1] - 192) * 64 + (b[2] - 128)>> \o FromUtf8(Tail(Tail(b)))
    ELSE <<65533>> \o FromUtf8(Tail(b))

\* writeUtf8: null is written as the length 0xFFFFFFFF
WriteUtf8(s) ==
    IF s.null THEN <<255, 255, 255, 255>>
    ELSE UInt32BE(Len(Utf8(s.cps))) \o Utf8(s.cps)

WriteBool(v) == <<IF v THEN 1 ELSE 0>>

\* doubles, counted in halves: 0.0, 0.5 and -1.5
Doubles == {0, 1, -3}

\* writeDoubleBE: IEEE 754 binary64
DoubleBE(d) ==
    CASE d = 0 -> <<0, 0, 0, 0, 0, 0, 0, 0>>
      [] d = 1 -> <<63, 224, 0, 0, 0, 0, 0, 0>>
      [] d = -3 -> <<191, 248, 0, 0, 0, 0, 0, 0>>

BuildHeader(msgType, id) ==
    MAGIC \o UInt32BE(SCHEMA) \o UInt32BE(msgType) \o WriteUtf8(id)

\* encodeReply(id, decode, modifiers), lowConfidence and modifiers given
EncodeReply(id, decode, modifiers) ==
    BuildHeader(MSG.REPLY, id)
    \o UInt32BE(decode.time) \o Int32BE(decode.snr) \o DoubleBE(decode.deltaTime)
    \o UInt32BE(decode.deltaFrequency)
    \o WriteUtf8(decode.mode) \o WriteUtf8(decode.message)
    \o WriteBool(decode.lowConfidence) \o <<modifiers>>

\* encodeHaltTx(id, autoTxOnly): autoTxOnly !== false
EncodeHaltTx(id, autoTxOnly) == BuildHeader(MSG.HALT_TX, id) \o WriteBool(autoTxOnly # FALSE)

\* encodeHeartbeat(id, maxSchema): maxSchema || SCHEMA, 'POTACAT', ''
EncodeHeartbeat(id, maxSchema) ==
    BuildHeader(MSG.HEARTBEAT, id)
    \o UInt32BE(IF maxSchema = 0 THEN SCHEMA ELSE maxSchema)
    \o WriteUtf8(Str(<<80, 79, 84, 65, 67, 65, 84>>)) \o WriteUtf8(Str(<<>>))

Remaining(r) == Len(r.buf) - r.offset

\* the bytes from the offset on, at most n of them
Bytes(r, n) ==
    SubSeq(r.buf, r.offset + 1, IF r.offset + n > Len(r.buf) THEN Len(r.buf) ELSE r.offset + n)

Skip(r, n) == [r EXCEPT !.offset = @ + n]

ReadUInt8(r) == [v |-> r.buf[r.offset + 1], r |-> Skip(r, 1)]

\* readUInt32BE, for values below 2^31
ReadUInt32BE(r) ==
    LET b == Bytes(r, 4)
    IN [v |-> ((b[1] * 256 + b[2]) * 256 + b[3]) * 256 + b[4], r |-> Skip(r, 4)]

ReadInt32BE(r) ==
    LET b == Bytes(r, 4)
    IN [v |-> IF b[1] < 128 THEN ((b[1] * 256 + b[2]) * 256 + b[3]) * 256 + b[4]
              ELSE ((((b[1] - 128) * 256 + b[2]) * 256 + b[3]) * 256 + b[4]
                    - 2147483647) - 1,
        r |-> Skip(r, 4)]

ReadDoubleBE(r) ==
    [v |-> CHOOSE d \in Doubles : DoubleBE(d) = Bytes(r, 8), r |-> Skip(r, 8)]

ReadBool(r) == [v |-> ReadUInt8(r).v # 0, r |-> Skip(r, 1)]

\* readUtf8: '' for the length 0xFFFFFFFF and for the length 0
ReadUtf8(r) ==
    LET r1 == Skip(r, 4)
    IN IF Bytes(r, 4) = <<255, 255, 255, 255>> THEN [v |-> Str(<<>>), r |-> r1]
       ELSE LET len == ReadUInt32BE(r).v
            IN IF len = 0 THEN [v |-> Str(<<>>), r |-> r1]
               ELSE [v |-> Str(FromUtf8(Bytes(r1, len))), r |-> Skip(r1, len)]

ParseHeartbeat(r) ==
    LET maxSchema == ReadUInt32BE(r)
        version == ReadUtf8(maxSchema.r)
    IN [maxSchema |-> maxSchema.v, version |-> version.v,
        revision |-> IF Remaining(version.r) >= 4 THEN ReadUtf8(version.r).v ELSE Str(<<>>)]

\* the fields of a REPLY body, read with the reader's methods in the order
\* encodeReply writes them
ReadReply(r) ==
    LET time == ReadUInt32BE(r)
        snr == ReadInt32BE(time.r)
        deltaTime == ReadDoubleBE(snr.r)
        deltaFrequency == ReadUInt32BE(deltaTime.r)
        mode == ReadUtf8(deltaFrequency.r)
        message == ReadUtf8(mode.r)
        lowConfidence == ReadBool(message.r)
        modifiers == ReadUInt8(lowConfidence.r)
    IN [time |-> time.v, snr |-> snr.v, deltaTime |-> deltaTime.v,
        deltaFrequency |-> deltaFrequency.v, mode |-> mode.v, message |-> message.v,
        lowConfidence |-> lowConfidence.v, modifiers |-> modifiers.v]

\* the header as _handleMessage reads it, then the body by message type
Decode(buf) ==
    IF Len(buf) < 12 \/ SubSeq(buf, 1, 4) # MAGIC THEN [type |-> -1]
    ELSE LET r == [buf |-> buf, offset |-> 4]
             schema == ReadUInt32BE(r)
             msgType == ReadUInt32BE(schema.r)
             id == ReadUtf8(msgType.r)
         IN CASE msgType.v = MSG.HEARTBEAT ->
                   LET hb == ParseHeartbeat(id.r)
                   IN [type |-> msgType.v, id |-> id.v, maxSchema |-> hb.maxSchema,
                       version |-> hb.version, revision |-> hb.revision]
              [] msgType.v = MSG.REPLY ->
                   LET d == ReadReply(id.r)
                   IN [type |-> msgType.v, id |-> id.v, decode |-> [f \in DOMAIN d \ {"modifiers"} |-> d[f]],
                       modifiers |-> d.modifiers]
              [] msgType.v = MSG.HALT_TX ->
                   [type |-> msgType.v, id |-> id.v, autoTxOnly |-> ReadBool(id.r).v]
              [] OTHER -> [type |-> msgType.v, id |-> id.v]

\* the strings the codec is given: null, and every string of at most MaxStr
\* characters over "A" and "e-acute"
CodecStrings ==
    {Null} \cup {Str(cps) : cps \in UNION {[1..n -> {65, 233}] : n \in 0..MaxStr}}

Decodes ==
    [time : {43200000}, snr : {-12, 3}, deltaTime : Doubles, deltaFrequency : {1500},
     mode : CodecStrings, message : CodecStrings, lowConfidence : BOOLEAN]

\* the arguments of the three builders
CodecMessages ==
    [type : {MSG.REPLY}, id : CodecStrings, decode : Decodes, modifiers : {0, 2}]
    \cup [type : {MSG.HALT_TX}, id : CodecStrings, autoTxOnly : BOOLEAN]
    \cup [type : {MSG.HEARTBEAT}, id : CodecStrings, maxSchema : {0, 2, 3}]

Encode(m) ==
    CASE m.type = MSG.REPLY -> EncodeReply(m.id, m.decode, m.modifiers)
      [] m.type = MSG.HALT_TX -> EncodeHaltTx(m.id, m.autoTxOnly)
      [] m.type = MSG.HEARTBEAT -> EncodeHeartbeat(m.id, m.maxSchema)

\* msg: the arguments of the last builder call, bytes: its buffer, out: what
\* the reader made of the buffer
CodecInit == [op |-> "new", msg |-> [type |-> -1], bytes |-> <<>>, out |-> [type |-> -1]]

\* a builder is called; the buffer of the call before it has been read
CodecCallEncode ==
    /\ adapter = "codec"
    /\ codec.op # "encode"
    /\ \E m \in CodecMessages :
         codec' = [op |-> "encode", msg |-> m, bytes |-> Encode(m), out |-> [type |-> -1]]

CodecCallDecode ==
    /\ adapter = "codec"
    /\ codec.op = "encode"
    /\ codec' = [codec EXCEPT !.op = "decode", !.out = Decode(codec.bytes)]

NextCodec ==
    /\ CodecCallEncode \/ CodecCallDecode
    /\ UNCHANGED <<adapter, sdr, tci, wsjtx, pskr, respot, clock>>

----------------------------------------------------------------------------
(* BinaryReader.readQDateTime.  A time value is a number of whole days and of
   milliseconds within the day, counted from the Unix epoch, so that values
   beyond 2^31 milliseconds can be written; NaN is the time value of an
   Invalid Date *)

JulianEpoch == 2440588
MsPerDay == 86400000
\* new Date(ms) is an Invalid Date beyond 100,000,000 days from the epoch
DateLimitDays == 100000000

NaN == [valid |-> FALSE, days |-> 0, ms |-> 0]

\* days * 86400000 + ms, as a time value
TimeValue(days, ms) ==
    [valid |-> TRUE, days |-> days + (ms \div MsPerDay), ms |-> ms % MsPerDay]

\* new Date(ms).getTime(): the time value, NaN when it is out of range
NewDate(t) ==
    IF /\ t.days >= -DateLimitDays
       /\ (t.days < DateLimitDays \/ (t.days = DateLimitDays /\ t.ms = 0))
    THEN t ELSE NaN

\* readInt64BE: hi * 0x100000000 + lo with hi signed and lo unsigned, for
\* values within 32 bits (hi is 0 or -1)
ReadInt64BE(r) ==
    LET hi == ReadInt32BE(r).v
        lo == Bytes(Skip(r, 4), 4)
    IN [v |-> CASE hi = 0 /\ lo[1] < 128 -> ReadUInt32BE(Skip(r, 4)).v
                [] hi = -1 /\ lo[1] >= 128 -> ReadInt32BE(Skip(r, 4)).v,
        r |-> Skip(r, 8)]

\* a faulty readQDateTime, to test C31: the time of day is left out
ReadQDateTimeNoMs(r) ==
    LET julianDay == ReadInt64BE(r)
        msOfDay == ReadUInt32BE(julianDay.r)
        timespec == ReadUInt8(msOfDay.r)
        unixDays == julianDay.v - JulianEpoch
    IN [v |-> NewDate(TimeValue(unixDays, 0)), r |-> timespec.r]

\* readQDateTime: Julian day, milliseconds of the day, timespec (not used)
ReadQDateTime(r) ==
    LET julianDay == ReadInt64BE(r)
        msOfDay == ReadUInt32BE(julianDay.r)
        timespec == ReadUInt8(msOfDay.r)
        unixDays == julianDay.v - JulianEpoch
    IN [v |-> NewDate(TimeValue(unixDays, msOfDay.v)), r |-> timespec.r]

\* a QDateTime as the peer writes it: qint64, quint32, quint8
QDateTimeBytes(julianDay, msOfDay, timespec) ==
    (IF julianDay >= 0 THEN <<0, 0, 0, 0>> ELSE <<255, 255, 255, 255>>)
    \o Int32BE(julianDay) \o UInt32BE(msOfDay) \o <<timespec>>

\* Julian days: around the epoch, day 0 and before, and at both ends of the
\* range of a Date
JulianDays ==
    {JulianEpoch - 1, JulianEpoch, JulianEpoch + 1, 0, -1, 2460000,
     JulianEpoch + DateLimitDays - 1, JulianEpoch + DateLimitDays,
     JulianEpoch + DateLimitDays + 1,
     JulianEpoch - DateLimitDays, JulianEpoch - DateLimitDays - 1}

\* milliseconds of the day; a quint32 may exceed a day
MsOfDays == {0, 1, 43200000, MsPerDay - 1, MsPerDay, 2147483647}

\* a date-time field arrives and is read
CodecCallReadQDateTime ==
    /\ adapter = "codec"
    /\ \E julianDay \in JulianDays, msOfDay \in MsOfDays, timespec \in {0, 1} :
         LET bytes == QDateTimeBytes(julianDay, msOfDay, timespec)
         IN codec' = [op |-> "readQDateTime",
                      msg |-> [julianDay |-> julianDay, msOfDay |-> msOfDay,
                               timespec |-> timespec],
                      bytes |-> bytes,
                      out |-> ReadQDateTime([buf |-> bytes, offset |-> 0])]

NextDate ==
    /\ CodecCallReadQDateTime
    /\ UNCHANGED <<adapter, sdr, tci, wsjtx, pskr, respot, clock>>

----------------------------------------------------------------------------
(* extractCallsigns (src/lib/wsjtx.js).  A text is a sequence of characters,
   each a string of length one *)

UpperLetters ==
    {"A", "B", "C", "D", "E", "F", "G", "H", "I", "J", "K", "L", "M", "N", "O", "P", "Q",
     "R", "S", "T", "U", "V", "W", "X", "Y", "Z"}
Digits == {"0", "1", "2", "3", "4", "5", "6", "7", "8", "9"}

\* message.trim()
RECURSIVE TrimStart(_)
TrimStart(t) == IF t # <<>> /\ Head(t) = " " THEN TrimStart(Tail(t)) ELSE t

RECURSIVE TrimEnd(_)
TrimEnd(t) ==
    IF t # <<>> /\ t[Len(t)] = " " THEN TrimEnd(SubSeq(t, 1, Len(t) - 1)) ELSE t

\* .split(/\s+/) of a trimmed text: cur is the token being read
RECURSIVE SplitWs(_, _, _)
SplitWs(t, cur, parts) ==
    IF t = <<>> THEN Append(parts, cur)
    ELSE IF Head(t) = " "
    THEN IF cur = <<>> THEN SplitWs(Tail(t), cur, parts)
         ELSE SplitWs(Tail(t), <<>>, Append(parts, cur))
    ELSE SplitWs(Tail(t), Append(cur, Head(t)), parts)

\* parts[i] || '', i counted from 0
PartOr(parts, i) == IF i + 1 <= Len(parts) THEN parts[i + 1] ELSE <<>>

extractCallsigns(message) ==
    IF message = <<>> THEN [dxCall |-> <<>>, deCall |-> <<>>]
    ELSE LET parts == SplitWs(TrimEnd(TrimStart(message)), <<>>, <<>>)
         IN IF parts[1] = <<"C", "Q">>
            THEN LET p1 == PartOr(parts, 1)
                     callIdx == IF /\ p1 # <<>>
                                   /\ p1[1] \in UpperLetters
                                   /\ p1[1] \notin Digits
                                   /\ Len(p1) <= 3
                                THEN 2 ELSE 1
                 IN [dxCall |-> PartOr(parts, callIdx), deCall |-> <<>>]
            ELSE [deCall |-> PartOr(parts, 0), dxCall |-> PartOr(parts, 1)]

\* tokens of decode texts: CQ, the qualifiers DX and POTA, the callsigns K1ABC
\* and K1A, a single letter and a grid
DecodeTokens ==
    {<<"C", "Q">>, <<"D", "X">>, <<"P", "O", "T", "A">>, <<"K", "1", "A", "B", "C">>,
     <<"K", "1", "A">>, <<"A">>, <<"F", "N", "4", "2">>}

\* the tokens with `sep` between them
RECURSIVE JoinTokens(_, _)
JoinTokens(tokens, sep) ==
    IF tokens = <<>> THEN <<>>
    ELSE IF Len(tokens) = 1 THEN tokens[1]
    ELSE tokens[1] \o sep \o JoinTokens(Tail(tokens), sep)

\* extractCallsigns is called with a text of at most MaxTokens tokens, with one
\* blank between them, or with two and a blank at either end
CodecCallExtractCallsigns ==
    /\ adapter = "codec"
    /\ \E n \in 0..MaxTokens :
         \E tokens \in [1..n -> DecodeTokens], wide \in BOOLEAN :
           LET sep == IF wide THEN <<" ", " ">> ELSE <<" ">>
               pad == IF wide THEN <<" ">> ELSE <<>>
               message == pad \o JoinTokens(tokens, sep) \o pad
           IN codec' = [op |-> "extractCallsigns",
                        msg |-> [tokens |-> tokens, text |-> message],
                        bytes |-> <<>>,
                        out |-> extractCallsigns(message)]

NextExtract ==
    /\ CodecCallExtractCallsigns
    /\ UNCHANGED <<adapter, sdr, tci, wsjtx, pskr, respot, clock>>

----------------------------------------------------------------------------
(* Specifications *)

InitOf(a) ==
    /\ adapter = a
    /\ sdr = SdrInit /\ tci = TciInit /\ wsjtx = WsjtxInit /\ pskr = PskrInit
    /\ respot = RespotInit
    /\ clock = ClockStart
    /\ codec = CodecInit

SdrOnly == UNCHANGED <<adapter, tci, wsjtx, pskr, respot, clock, codec>>
TciOnly == UNCHANGED <<adapter, sdr, wsjtx, pskr, respot, clock, codec>>
WsjtxOnly == UNCHANGED <<adapter, sdr, tci, pskr, respot, clock, codec>>
PskrOnly == UNCHANGED <<adapter, sdr, tci, wsjtx, respot, clock, codec>>

NextSdrPtt == SdrCallCwPttOn \/ SdrCallCwPttRelease \/ SdrTimerCwPtt

NextSdrNeeds == SdrCallSetNeedsCw \/ SdrTimerBind

\* SmartSDR: connection and spots
SpecSdrSpots == InitOf("smartsdr") /\ [][(NextSdrLife \/ NextSdrSpots) /\ SdrOnly]_vars

\* SmartSDR: connection and CW keying
SpecSdrCw == InitOf("smartsdr") /\ [][(NextSdrLife \/ NextSdrCw) /\ SdrOnly]_vars

\* SmartSDR: connection and the inbound byte stream
SpecSdrLines == InitOf("smartsdr") /\ [][(NextSdrLife \/ SdrSockDataChunk) /\ SdrOnly]_vars

\* the same, with the clock running
SpecSdrTime ==
    InitOf("smartsdr") /\ [][((NextSdrLife \/ NextSdrCw) /\ SdrOnly) \/ ClockTick]_vars

\* the same, with a connect() that does not wait for the earlier socket to go
\* and one more cwKey
SpecSdrKey ==
    InitOf("smartsdr")
    /\ [][(NextSdrLife \/ SdrCallConnectAgain \/ SdrCallCwKeyNext \/ NextSdrCw) /\ SdrOnly]_vars

\* SmartSDR: connection, also while an earlier socket is still there, the client
\* bind and the persistent id
SpecSdrRebind ==
    InitOf("smartsdr")
    /\ [][(\/ SdrCallConnect \/ SdrCallConnectAgain \/ SdrCallDisconnect
            \/ SdrSockConnect \/ SdrSockClose \/ SdrTimerDestroy
            \/ NextSdrBind)
           /\ SdrOnly]_vars

\* SmartSDR: connection, CW keying and the client bind
SpecSdrBind ==
    InitOf("smartsdr") /\ [][(NextSdrLife \/ NextSdrCw \/ NextSdrBind) /\ SdrOnly]_vars

\* TCI: connection and spots
SpecTci == InitOf("tci") /\ [][(NextTciConn \/ NextTciSpots) /\ TciOnly]_vars

\* WSJT-X
SpecWsjtx == InitOf("wsjtx") /\ [][(NextWsjtxLife \/ NextWsjtxCmds) /\ WsjtxOnly]_vars

\* the spot pipeline of either panadapter adapter
InitSpots == \E a \in {"smartsdr", "tci"} : InitOf(a)

NextSpots ==
    \/ (NextSdrLife \/ NextSdrSpots) /\ SdrOnly
    \/ (NextTciConn \/ NextTciSpots) /\ TciOnly

SpecSpots == InitSpots /\ [][NextSpots]_vars

\* one call of postWwffRespot
SpecRespot == InitOf("wwff") /\ [][NextRespot]_vars

\* callsign extraction from decode texts
SpecExtract == InitOf("codec") /\ [][NextExtract]_vars

\* the WSJT-X codec: date-time fields
SpecDate == InitOf("codec") /\ [][NextDate]_vars

\* the WSJT-X codec: a builder call, then the reader on its buffer
SpecCodec == InitOf("codec") /\ [][NextCodec]_vars

\* the same, with the runtime firing the overall timer when it is due
FairSpecRespot == SpecRespot /\ WF_vars(RespotTimerTimeout /\ UNCHANGED <<adapter, sdr, tci, wsjtx, pskr, clock, codec>>)

\* PSKReporter: polling, with responses that are cut off, and a poll timer that
\* fires when it is due
NextPskrPoll == (NextPskr \/ PskrHttpTimeout) /\ PskrOnly

FairSpecPskr ==
    InitOf("pskr") /\ [][NextPskrPoll]_vars /\ WF_vars(PskrTimerPoll /\ PskrOnly)

\* the connections and the timers of any one adapter
Init == \E a \in {"smartsdr", "tci", "wsjtx", "pskr"} : InitOf(a)

Next ==
    \/ (NextSdrLife \/ NextSdrPtt \/ NextSdrNeeds) /\ SdrOnly
    \/ NextTciLife /\ TciOnly
    \/ NextWsjtxLife /\ WsjtxOnly
    \/ NextPskr /\ PskrOnly

Spec == Init /\ [][Next]_vars

----------------------------------------------------------------------------
(* Properties *)

\* the number of entries of the sequence q that satisfy Test
CountIn(q, Test(_)) == Cardinality({i \in 1..Len(q) : Test(q[i])})

\* removal commands for `call` that the last SmartSDR handler wrote
SdrRemovals(w, call) ==
    CountIn(w.written, LAMBDA e : e.cmd.c = "spot remove" /\ e.cmd.call = call)

\* removal commands for `call` that the last TCI handler wrote
TciRemovals(w, call) ==
    CountIn(w.written, LAMBDA e : e.c = "spot_delete" /\ e.call = call)

\* removal commands for `call` in the TCI buffer
TciBuffered(w, call) ==
    CountIn(w._pendingCmds, LAMBDA e : e.c = "spot_delete" /\ e.call = call)

\* 1 for a callsign pushed in the previous cycle and not in the current one
Stale(w, call) == IF call \in w.cycPrev \ w.cycCur THEN 1 ELSE 0

PttWritten(w, x) == CountIn(w.written, LAMBDA e : e.cmd.c = "cw ptt" /\ e.cmd.x = x)

\* C2 as stated: once cw ptt 1 is on the wire, a cw ptt 0 follows when the
\* holdoff elapses, with no further call of the host.  In a finite run: while
\* the last cw ptt command written is cw ptt 1, the holdoff timer that will
\* write cw ptt 0 is pending.
C2_LatchedPttHasHoldoff ==
    sdr.pttWire => PendingTimers(sdr, "cwPtt") # {}

\* the holdoff callback ran on an adapter that had lost its connection: cw ptt 1
\* is the last command on the wire, the flag is cleared and no timer is left
C2_Witness ==
    /\ sdr.op = "timer cwPtt"
    /\ sdr.pttWire /\ ~sdr._cwPttActive
    /\ sdr.timers = {}

\* C3 as stated: a cwPttOn call that starts a run writes exactly one cw ptt 1
\* and a call within a run writes none; every call leaves the one holdoff timer
\* of 1500 ms pending; and the holdoff callback that ends a run writes exactly
\* one cw ptt 0.
C3_PttOncePerRun ==
    [][ /\ sdr'.op = "cwPttOn" =>
             /\ PttWritten(sdr', 1) = IF sdr._cwPttActive THEN 0 ELSE 1
             /\ PttWritten(sdr', 0) = 0
             /\ PendingTimers(sdr', "cwPtt") =
                  {[kind |-> "cwPtt", delay |-> CwPttHoldoff, h |-> TRUE, n |-> 1]}
        /\ (sdr'.op = "timer cwPtt" /\ sdr._cwPttActive) =>
             /\ PttWritten(sdr', 0) = 1
             /\ PttWritten(sdr', 1) = 0 ]_vars

\* a run of two cwPttOn calls on an adapter that is not connected: nothing was
\* written, the flag is set and the holdoff timer is pending
C3_Witness ==
    /\ sdr.op = "cwPttOn"
    /\ ~sdr.connected /\ sdr._cwPttActive
    /\ sdr.written = <<>>
    /\ ~sdr.pttWire
    /\ PendingTimers(sdr, "cwPtt") # {}

\* the one heartbeat timeout a connected WSJT-X adapter has pending
HeartbeatDeadline ==
    {[kind |-> "heartbeat", delay |-> HeartbeatTimeoutMs, h |-> TRUE, n |-> 1]}

\* C4: while the WSJT-X adapter is Connected exactly one 30 s heartbeat timeout
\* is pending, armed by the last HEARTBEAT or STATUS packet; when it expires
\* the adapter goes to Listening (bound, not connected, session id reset) and
\* emits one disconnect status, and no timeout is left that could emit a
\* second one; a timeout that expires on an adapter that is not Connected
\* emits nothing and changes nothing.
C4_HeartbeatTimeoutOnce ==
    [][ /\ wsjtx'.connected => wsjtx'.timers = HeartbeatDeadline
        /\ (wsjtx'.op = "timer heartbeat" /\ wsjtx.connected) =>
             /\ ~wsjtx'.connected /\ wsjtx'.wsjtxId = ""
             /\ wsjtx'.socket = 1 /\ wsjtx'.udp = "bound"
             /\ wsjtx'.emitted = <<"status listening">>
             /\ wsjtx'.timers = {}
        /\ (wsjtx'.op = "timer heartbeat" /\ ~wsjtx.connected) =>
             /\ wsjtx'.emitted = <<>>
             /\ wsjtx' = [wsjtx EXCEPT !.op = "timer heartbeat", !.written = <<>>,
                                      !.emitted = <<>>, !.timers = {}] ]_vars

\* the timeout has expired on a Connected adapter
C4_Witness ==
    /\ wsjtx.op = "timer heartbeat"
    /\ wsjtx.emitted = <<"status listening">>
    /\ ~wsjtx.connected /\ wsjtx.udp = "bound"
    /\ wsjtx.heartbeatTimeout = 1

\* C5 as stated: an event of a socket that disconnect() has closed changes
\* neither the connected flag, the socket reference, the bind flag or the
\* ready flag of the adapter, emits no event and arms no reconnect timer.
C5_StaleEventsIgnored ==
    [][ /\ sdr'.stale =>
             /\ sdr'.connected = sdr.connected /\ sdr'._sock = sdr._sock
             /\ sdr'._cwBound = sdr._cwBound
             /\ sdr'._reconnectTimer = sdr._reconnectTimer
             /\ PendingTimers(sdr', "reconnect") = PendingTimers(sdr, "reconnect")
             /\ sdr'.emitted = <<>>
        /\ tci'.stale =>
             /\ tci'.connected = tci.connected /\ tci'._ws = tci._ws
             /\ tci'._ready = tci._ready
             /\ tci'._reconnectTimer = tci._reconnectTimer
             /\ PendingTimers(tci', "reconnect") = PendingTimers(tci, "reconnect")
             /\ tci'.emitted = <<>> ]_vars

\* the 'close' event of a socket that disconnect() has closed has armed the
\* reconnect timer of a torn-down adapter
C5_Witness ==
    /\ sdr.stale /\ sdr.op = "sock close"
    /\ sdr._host = 0
    /\ PendingTimers(sdr, "reconnect") # {}

\* C6 as stated: when disconnect() returns, on any adapter, the adapter is
\* not connected and none of the timers it has scheduled is pending (reconnect,
\* heartbeat timeout, CW PTT holdoff, poll, delayed bind, delayed destroy).
C6_DisconnectLeavesNoTimer ==
    /\ sdr.op = "disconnect" =>
         /\ ~sdr.connected /\ sdr.timers = {}
         /\ \A s \in sdr.socks : s.dtimer = 0
    /\ tci.op = "disconnect" => ~tci.connected /\ tci.timers = {}
    /\ wsjtx.op = "disconnect" => ~wsjtx.connected /\ wsjtx.timers = {}
    /\ pskr.op = "disconnect" => ~pskr.connected /\ pskr.timers = {}

\* disconnect() has returned on a SmartSDR adapter that needs CW: the bind
\* timer of the connect handler and the destroy timer of disconnect() itself
\* are pending
C6_Witness ==
    /\ sdr.op = "disconnect"
    /\ PendingTimers(sdr, "bind") # {}
    /\ \E s \in sdr.socks : s.dtimer = DestroyDelay

\* at most one timer of the kind is pending, and the adapter's handle field
\* refers to it
OneTimer(w, kind, handle) ==
    LET pending == PendingTimers(w, kind)
    IN /\ Cardinality(pending) <= 1
       /\ pending # {} => handle = 1 /\ \A t \in pending : t.h

\* C7: in every reachable state each adapter has at most one timer pending
\* per purpose: the reconnect timer of SmartSDR and of TCI, the CW PTT holdoff
\* of SmartSDR, the heartbeat timeout of WSJT-X and the poll timer of
\* PSKReporter; the handle field of the adapter refers to that timer, so that
\* the next arming finds it and cancels it, or leaves it in place.
C7_OneTimerPerPurpose ==
    /\ OneTimer(sdr, "reconnect", sdr._reconnectTimer)
    /\ OneTimer(sdr, "cwPtt", sdr._cwPttTimer)
    /\ OneTimer(tci, "reconnect", tci._reconnectTimer)
    /\ OneTimer(wsjtx, "heartbeat", wsjtx.heartbeatTimeout)
    /\ OneTimer(pskr, "poll", pskr._pollTimer)

\* a 200 response has found the backoff timer of an earlier response pending
\* and has left it in place
C7_Witness ==
    /\ pskr.op = "http response"
    /\ pskr.emitted = <<"status connected">>
    /\ PendingTimers(pskr, "poll") =
         {[kind |-> "poll", delay |-> BackoffInterval, h |-> TRUE, n |-> 1]}

----------------------------------------------------------------------------
\* the one reconnect timer an adapter has after _scheduleReconnect
ReconnectArmed(w) ==
    /\ w._reconnectTimer = 1
    /\ PendingTimers(w, "reconnect") =
         {[kind |-> "reconnect", delay |-> ReconnectDelay, h |-> TRUE, n |-> 1]}

\* the reconnect callback has made a connection attempt: a new socket, which
\* the adapter refers to, is connecting
NewAttempt(before, after, ref) ==
    /\ ref = 1
    /\ Cardinality(after) = Cardinality(before) + 1
    /\ \E s \in after : s.cur /\ s.st = "connecting" /\ ~s.ended

\* C8: on SmartSDR and on TCI, when a socket that disconnect() has not closed
\* is closed (a failed connection attempt included), the adapter is not
\* connected and exactly one reconnect timer of 5000 ms is pending; when that
\* timer fires while the adapter is not connected and disconnect() has not
\* cleared the host, a new connection attempt is made, whose failure arms the
\* timer again with the same delay (a TCI attempt that throws on its URL arms
\* it at once).  No step counts the attempts.
C8_AutoReconnect ==
    [][ /\ (sdr'.op \in {"sock close", "sock error"} /\ ~sdr'.stale) =>
             ~sdr'.connected /\ ReconnectArmed(sdr')
        /\ (sdr'.op = "timer reconnect" /\ ~sdr.connected /\ sdr._host # 0) =>
             NewAttempt(sdr.socks, sdr'.socks, sdr'._sock)
        /\ (tci'.op \in {"ws close", "ws error"} /\ ~tci'.stale) =>
             ~tci'.connected /\ ReconnectArmed(tci')
        /\ (tci'.op = "timer reconnect" /\ ~tci.connected /\ tci._host # "") =>
             IF tci._host = "bad host"
             THEN tci'.emitted = <<"error">> /\ ReconnectArmed(tci')
             ELSE NewAttempt(tci.socks, tci'.socks, tci'._ws)
        /\ \A t \in PendingTimers(sdr', "reconnect") \cup PendingTimers(tci', "reconnect") :
             t.delay = ReconnectDelay ]_vars

\* the reconnect timer of SmartSDR has fired after a close and has made a new
\* connection attempt; no reconnect timer is pending while the attempt runs
C8_Witness ==
    /\ sdr.op = "timer reconnect"
    /\ sdr._host = 1 /\ ~sdr.connected
    /\ NewAttempt({}, sdr.socks, sdr._sock)
    /\ sdr._reconnectTimer = 0 /\ PendingTimers(sdr, "reconnect") = {}

\* the commands a spot operation of TCI has passed to _send and _send has not
\* dropped: those written, or those appended to the buffer
TciAppended(w, w2) ==
    SubSeq(w2._pendingCmds, Len(w._pendingCmds) + 1, Len(w2._pendingCmds))

TciSpotOps == {"addSpot", "pruneStaleSpots", "clearSpots"}

\* C9 as stated: a spot operation of TCI that runs after connect() and before
\* `ready` drops no command and writes none, its commands are appended to the
\* buffer; the message that carries `ready` writes the buffer to the socket in
\* order; nothing is written while the ready flag is clear.
C9_BufferedUntilReady ==
    [][ /\ (tci'.op \in TciSpotOps /\ tci._host # "" /\ ~tci._ready) =>
             /\ tci'.dropped = 0 /\ tci'.written = <<>>
             /\ SubSeq(tci'._pendingCmds, 1, Len(tci._pendingCmds)) = tci._pendingCmds
        /\ (tci'.op = "ws message" /\ ~tci'.stale /\ ~tci._ready /\ tci'._ready) =>
             tci'.written = tci._pendingCmds /\ tci'._pendingCmds = <<>>
        /\ (tci'.op \in TciSpotOps /\ tci'.written # <<>>) => tci._ready ]_vars

\* addSpot between connect() and 'open': the spot command is dropped, and the
\* adapter records the callsign as pushed
C9_Witness ==
    /\ tci.op = "addSpot" /\ tci.dropped = 1
    /\ tci._host # "" /\ ~tci.connected /\ tci._ws = 1
    /\ tci._pendingCmds = <<>> /\ tci.written = <<>>
    /\ tci._activeSpots # <<>>

----------------------------------------------------------------------------
\* the callsigns of q that are not in p, in the order of q
NotIn(q, p) == SelectSeq(q, LAMBDA c : ~InSeq(c, p))

SdrRemoveCmds(calls) == [i \in 1..Len(calls) |-> Cmd("spot remove", calls[i], 0, 0)]
TciDeleteCmds(calls) == [i \in 1..Len(calls) |-> TciCmd("spot_delete", calls[i], 0)]

\* a removal of a callsign followed by its new marker, or the marker alone
MoveOrAdd(cmds, remove, add) ==
    \/ Len(cmds) = 1 /\ cmds[1].c = add
    \/ /\ Len(cmds) = 2 /\ cmds[1].c = remove /\ cmds[2].c = add
       /\ cmds[1].call = cmds[2].call

\* the commands of a SmartSDR step without their sequence numbers
SdrCmds(w) == [i \in 1..Len(w.written) |-> w.written[i].cmd]

\* the commands a TCI spot operation has handed on, written or buffered
TciIssued(w, w2) == IF w2.written # <<>> THEN w2.written ELSE TciAppended(w, w2)

\* C10: commands reach the socket in the order of the calls that issue them.
\* SmartSDR: the commands a step writes carry consecutive sequence numbers that
\* continue the previous step's; addSpot writes the removal before the add,
\* pruneStaleSpots writes its removals in the order of the previous cycle.
\* TCI: a spot operation either writes its commands or appends them to the end
\* of the buffer, in call order; the buffer is empty whenever the ready flag is
\* set, so that a command issued after `ready` is never written ahead of a
\* buffered one; the flush writes the buffer from its head, all of it or (on a
\* socket that is not open) none of it.
C10_WireOrderIsCallOrder ==
    [][ /\ \A i \in 1..Len(sdr'.written) : sdr'.written[i].seq = sdr._seq + i - 1
        /\ sdr'._seq = sdr._seq + Len(sdr'.written)
        /\ (sdr'.op = "addSpot" /\ sdr'.written # <<>>) =>
             MoveOrAdd(SdrCmds(sdr'), "spot remove", "spot add")
        /\ (sdr'.op = "pruneStaleSpots" /\ SdrCanSend(sdr)) =>
             SdrCmds(sdr') = SdrRemoveCmds(NotIn(sdr._previousSpots, sdr._activeSpots))
        /\ tci'._ready => tci'._pendingCmds = <<>>
        /\ tci'.op \in TciSpotOps =>
             /\ SubSeq(tci'._pendingCmds, 1, Len(tci._pendingCmds)) = tci._pendingCmds
             /\ tci'.written = <<>> \/ TciAppended(tci, tci') = <<>>
        /\ (tci'.op = "addSpot" /\ TciIssued(tci, tci') # <<>>) =>
             MoveOrAdd(TciIssued(tci, tci'), "spot_delete", "spot")
        /\ (tci'.op = "pruneStaleSpots" /\ tci.connected /\ tci'.dropped = 0) =>
             TciIssued(tci, tci') = TciDeleteCmds(NotIn(tci._previousSpots, tci._activeSpots))
        /\ (tci'.op = "clearSpots" /\ tci.connected /\ tci'.dropped = 0) =>
             TciIssued(tci, tci') = TciDeleteCmds(tci._previousSpots \o tci._activeSpots)
        /\ tci'.op = "ws message" =>
             /\ tci'.written \in {<<>>, tci._pendingCmds}
             /\ tci'.written # <<>> => tci'._pendingCmds = <<>> ]_vars

\* `ready` arrives with a move buffered: the removal and the new marker of the
\* callsign are written in that order, and the buffer is empty
C10_Witness ==
    /\ tci.op = "ws message" /\ tci._ready /\ tci._pendingCmds = <<>>
    /\ Len(tci.written) = 2
    /\ tci.written[1].c = "spot_delete" /\ tci.written[2].c = "spot"

----------------------------------------------------------------------------
(* addSpot around the frequency-change thresholds *)

\* spot.freqMHz offered to the SmartSDR addSpot, in Hz: 500 Hz and 501 Hz apart
SdrCallAddSpotNear ==
    /\ adapter = "smartsdr"
    /\ SdrSeqOk(sdr)
    /\ \E call \in Calls, f \in {14074000, 14074500, 14074501} :
         sdr' = [SdrAddSpot(Begin(sdr, "addSpot", FALSE), call, f)
                   EXCEPT !.cycCur = @ \cup {call}]

\* spot.frequency offered to the TCI addSpot, in units of 0.0001 kHz: they round
\* to 14074000 Hz, 14074050 Hz and 14074051 Hz
TciCallAddSpotNear ==
    /\ adapter = "tci"
    /\ TciCmdsOk(tci)
    /\ \E call \in Calls, f \in {140740000, 140740504, 140740505} :
         tci' = [TciAddSpot(TciBegin(tci, "addSpot", FALSE), call, f)
                   EXCEPT !.cycCur = @ \cup {call}]

NextDedup ==
    \/ /\ \/ SdrCallConnect \/ SdrSockConnect \/ SdrSockClose
          \/ SdrCallAddSpotNear \/ SdrCallPruneStaleSpots
       /\ SdrOnly
    \/ /\ \/ TciCallConnect \/ TciWsOpen \/ TciWsMessage \/ TciWsClose
          \/ TciCallAddSpotNear \/ TciCallPruneStaleSpots
       /\ TciOnly

SpecDedup == InitSpots /\ [][NextDedup]_vars

\* what the claim expects of addSpot(call, f): the add, preceded by a removal
\* when the callsign is tracked at a frequency more than the threshold away
SdrDedup(w, call, f) ==
    IF w._spotFreqs[call] # 0 /\ Abs(w._spotFreqs[call] - f) > SdrFreqThresholdHz
    THEN <<Cmd("spot remove", call, 0, 0), Cmd("spot add", call, f, 0)>>
    ELSE <<Cmd("spot add", call, f, 0)>>

TciDedup(w, call, freqHz) ==
    IF w._spotFreqs[call] # 0 /\ Abs(w._spotFreqs[call] - freqHz) > TciFreqThresholdHz
    THEN <<TciCmd("spot_delete", call, 0), TciCmd("spot", call, freqHz)>>
    ELSE <<TciCmd("spot", call, freqHz)>>

----------------------------------------------------------------------------
\* C12: after every pruneStaleSpots call, on SmartSDR and on TCI and in any
\* connection state, the previous set is the active set as it was just before
\* the call (same callsigns, same insertion order) and the active set is empty.
C12_SetsRotate ==
    [][ /\ sdr'.op = "pruneStaleSpots" =>
             sdr'._previousSpots = sdr._activeSpots /\ sdr'._activeSpots = <<>>
        /\ tci'.op = "pruneStaleSpots" =>
             tci'._previousSpots = tci._activeSpots /\ tci'._activeSpots = <<>> ]_vars

\* pruneStaleSpots on a SmartSDR adapter that is not connected: nothing is
\* written, and both callsigns of the cycle are now the previous set
C12_Witness ==
    /\ sdr.op = "pruneStaleSpots" /\ ~sdr.connected /\ sdr.written = <<>>
    /\ Len(sdr._previousSpots) = 2 /\ sdr._activeSpots = <<>>
    /\ sdr.cycPrev = Calls

----------------------------------------------------------------------------
\* the last handler emitted the event ev this many times
Emitted(w, ev) == CountIn(w.emitted, LAMBDA e : e = ev)

\* C13: the WSJT-X adapter becomes Connected only in the handler of a
\* HEARTBEAT or STATUS datagram that its parser accepts, which then emits one connected
\* status event and stores the datagram's id as the session id; a connected
\* status event is emitted in no other step.  It leaves Connected only on a
\* CLOSE datagram or on the expiry of the heartbeat timeout, both of which
\* leave the socket bound (Listening), or in disconnect() (connect() included).
\* DECODE, CLEAR, QSO_LOGGED and LOGGED_ADIF datagrams change neither the
\* connected flag, the session id nor the timeout.
C13_ConnectedTransitions ==
    [][ /\ (~wsjtx.connected /\ wsjtx'.connected) =>
             /\ wsjtx'.op = "sock message" /\ wsjtx'.rx.form \in {"ok", "cutstring"}
             /\ wsjtx'.rx.type \in {"HEARTBEAT", "STATUS"}
             /\ Emitted(wsjtx', "status connected") = 1
             /\ wsjtx'.wsjtxId = wsjtx'.rx.id
        /\ Emitted(wsjtx', "status connected") > 0 =>
             ~wsjtx.connected /\ wsjtx'.connected
        /\ (wsjtx.connected /\ ~wsjtx'.connected) =>
             \/ /\ wsjtx'.op = "sock message" /\ wsjtx'.rx.type = "CLOSE"
                /\ wsjtx'.socket = 1 /\ wsjtx'.udp = "bound"
             \/ /\ wsjtx'.op = "timer heartbeat"
                /\ wsjtx'.socket = 1 /\ wsjtx'.udp = "bound"
             \/ wsjtx'.op \in {"disconnect", "connect"}
        /\ (wsjtx'.op = "sock message"
            /\ wsjtx'.rx.type \in {"DECODE", "CLEAR", "QSO_LOGGED", "LOGGED_ADIF"}) =>
             /\ wsjtx'.connected = wsjtx.connected /\ wsjtx'.wsjtxId = wsjtx.wsjtxId
             /\ wsjtx'.timers = wsjtx.timers
             /\ Emitted(wsjtx', "status listening") = 0 ]_vars

\* a STATUS datagram has made the adapter Connected
C13_Witness ==
    /\ wsjtx.op = "sock message" /\ wsjtx.rx.type = "STATUS"
    /\ wsjtx.connected /\ wsjtx.wsjtxId = "JTDX"
    /\ wsjtx.emitted = <<"status connected", "wsjtx-status">>

\* C14: in every state, a WSJT-X adapter that is not Connected has no session
\* id and an empty highlighted-callsign set.
C14_NotConnectedIsReset ==
    ~wsjtx.connected => wsjtx.wsjtxId = "" /\ wsjtx._highlightedCalls = <<>>

\* a CLOSE datagram has ended a session in which a callsign was highlighted
\* (the datagram's sender is still the destination, the timeout still pending)
C14_Witness ==
    /\ wsjtx.op = "sock message" /\ wsjtx.rx.type = "CLOSE"
    /\ wsjtx.emitted = <<"status listening">>
    /\ ~wsjtx.connected /\ wsjtx.wsjtxId = "" /\ wsjtx._highlightedCalls = <<>>
    /\ wsjtx.wsjtxAddr # "" /\ wsjtx.timers # {}

----------------------------------------------------------------------------
\* the outbound HEARTBEAT that answers the datagram m
HeartbeatReply(m) ==
    [msg |-> [c |-> "HEARTBEAT", id |-> m.id, call |-> ""],
     addr |-> m.peer.addr, port |-> m.peer.port]

\* C15: the handler of every inbound HEARTBEAT that parses sends exactly one
\* datagram, a HEARTBEAT with the packet's id to the address and port the
\* packet came from, and leaves exactly one 30 s timeout pending, newly armed;
\* no other step sends a HEARTBEAT.
C15_HeartbeatAnswered ==
    [][ /\ (wsjtx'.op = "sock message" /\ wsjtx'.rx.form \in {"ok", "cutstring"}
            /\ wsjtx'.rx.type = "HEARTBEAT") =>
             /\ wsjtx'.written = <<HeartbeatReply(wsjtx'.rx)>>
             /\ wsjtx'.timers = HeartbeatDeadline /\ wsjtx'.heartbeatTimeout = 1
        /\ (\E i \in 1..Len(wsjtx'.written) : wsjtx'.written[i].msg.c = "HEARTBEAT") =>
             /\ wsjtx'.op = "sock message" /\ wsjtx'.rx.form \in {"ok", "cutstring"}
             /\ wsjtx'.rx.type = "HEARTBEAT" ]_vars

\* a HEARTBEAT from a second sender arrives in a session: it is answered at
\* its own address, with one timeout pending
C15_Witness ==
    /\ wsjtx.op = "sock message" /\ wsjtx.rx.type = "HEARTBEAT" /\ wsjtx.rx.form = "ok"
    /\ wsjtx.emitted = <<>> /\ wsjtx.connected
    /\ wsjtx.rx.peer.addr = "192.168.1.5"
    /\ wsjtx.written = <<HeartbeatReply(wsjtx.rx)>>
    /\ wsjtx.timers = HeartbeatDeadline

----------------------------------------------------------------------------
WsjtxCmdOps == {"reply", "haltTx", "highlightCallsign", "clearHighlights"}

\* C16: reply, haltTx, highlightCallsign and clearHighlights, called while the
\* WSJT-X adapter has no session id, send no datagram, emit nothing and leave
\* every field of the adapter as it was, the highlighted set included.
C16_CommandsNeedSession ==
    [][ (wsjtx'.op \in WsjtxCmdOps /\ wsjtx.wsjtxId = "") =>
            /\ wsjtx'.written = <<>> /\ wsjtx'.emitted = <<>>
            /\ wsjtx' = [wsjtx EXCEPT !.op = wsjtx'.op, !.written = <<>>,
                                      !.emitted = <<>>] ]_vars

\* haltTx after a CLOSE datagram has ended the session: the socket is bound and
\* the peer's address is still known, and nothing is sent
C16_Witness ==
    /\ wsjtx.op = "haltTx" /\ wsjtx.written = <<>>
    /\ wsjtx.wsjtxId = "" /\ ~wsjtx.connected
    /\ wsjtx.socket = 1 /\ wsjtx.udp = "bound" /\ wsjtx.wsjtxAddr # ""
    /\ wsjtx.rx.type = "CLOSE"

----------------------------------------------------------------------------
(* every public method, in every connection state *)

\* the spot methods and the CW methods of SmartSDR share no field but _seq:
\* the host is taken to drive the markers or the keyer, one at a time
NextCalls ==
    \/ /\ \/ NextSdrLife \/ SdrCallTuneSlice \/ SdrCallSetCwSpeed
          \/ /\ NextSdrSpots
             /\ sdr._cwKeyIndex = 0 /\ ~sdr._cwPttActive /\ sdr._cwPttTimer = 0
             /\ PendingTimers(sdr, "cwPtt") = {} /\ ~sdr.pttWire
          \/ /\ NextSdrCw
             /\ sdr._activeSpots = <<>> /\ sdr._previousSpots = <<>>
             /\ \A c \in Calls : sdr._spotFreqs[c] = 0
             /\ sdr.cycCur = {} /\ sdr.cycPrev = {}
       /\ SdrOnly
    \/ (NextTciConn \/ NextTciSpots) /\ TciOnly
    \/ (NextWsjtxLife \/ NextWsjtxCmds) /\ WsjtxOnly
    \/ NextPskr /\ PskrOnly

SpecCalls == Init /\ [][NextCalls]_vars

\* the fields of an adapter, without the log of the step and the records of
\* the input
SdrState(w) ==
    [w EXCEPT !.op = "", !.stale = FALSE, !.written = <<>>, !.emitted = <<>>,
              !.cycCur = {}, !.cycPrev = {}, !.pttWire = FALSE]

TciState(w) ==
    [w EXCEPT !.op = "", !.stale = FALSE, !.written = <<>>, !.emitted = <<>>,
              !.dropped = 0, !.cycCur = {}, !.cycPrev = {}]

WsjtxState(w) ==
    [w EXCEPT !.op = "", !.stale = FALSE, !.written = <<>>, !.emitted = <<>>,
              !.rx = WsjtxNoDatagram]

PskrState(w) ==
    [w EXCEPT !.op = "", !.stale = FALSE, !.written = <<>>, !.emitted = <<>>, !.rx = 0,
              !.said = <<>>, !.old = 0]

\* an adapter without its spot bookkeeping, and without its keying fields
SdrSpotsBlank(w) ==
    [w EXCEPT !._activeSpots = <<>>, !._previousSpots = <<>>,
              !._spotFreqs = [c \in Calls |-> 0]]

TciSpotsBlank(w) ==
    [w EXCEPT !._activeSpots = <<>>, !._previousSpots = <<>>,
              !._spotFreqs = [c \in Calls |-> 0]]

SdrCwBlank(w) ==
    [w EXCEPT !._cwKeyIndex = 0, !._cwPttActive = FALSE, !._cwPttTimer = 0,
              !.timers = {t \in @ : t.kind # "cwPtt"}]

SdrSpotOps == {"addSpot", "pruneStaleSpots", "clearSpots"}
SdrCwOps == {"cwKey", "cwPttOn", "cwPttRelease", "cwStop"}
SdrTuneOps == {"tuneSlice", "setCwSpeed"}

----------------------------------------------------------------------------
\* the one poll timer of PSKReporter, armed with the given interval
PollArmed(w, interval) ==
    /\ w._pollTimer = 1
    /\ PendingTimers(w, "poll") =
         {[kind |-> "poll", delay |-> interval, h |-> TRUE, n |-> 1]}

PskrOutcomeOps == {"http response", "http error"}

----------------------------------------------------------------------------
PskrStatusEvents(w) ==
    SelectSeq(w.emitted, LAMBDA e : e \in {"status connected", "status disconnected"})

\* C19: PSKReporter emits a status event only on a change of connectivity.
\* Over connect(), disconnect(), poll responses and errors, a step emits at
\* most one status event, the event differs from the last one emitted before
\* it, and a step that leaves the connected flag as it was emits none.
C19_StatusOnlyOnChange ==
    [][ pskr'.op # "" =>
            LET st == PskrStatusEvents(pskr')
            IN /\ Len(st) <= 1
               /\ (st # <<>> /\ pskr.said # <<>>) => st[1] # pskr.said[Len(pskr.said)]
               /\ pskr'.connected = pskr.connected => st = <<>> ]_vars

\* a second status event { connected: true } in a row, emitted by a 200
\* response
C19_Witness ==
    /\ pskr.op = "http response" /\ pskr.rx = 200
    /\ Emitted(pskr, "status connected") = 1
    /\ pskr.said = <<"status connected", "status connected">>

\* C20: PSKReporter polling is single-flight.  At most one HTTP request is in
\* flight in every state, and a step that starts a request leaves no poll
\* timer pending.
C20_SingleFlight ==
    /\ pskr.reqs <= 1
    /\ pskr.op \in {"connect", "timer poll"} /\ pskr.written # <<>> => pskr.timers = {}

\* connect() while the request of the previous connect() is in flight
C20_Witness ==
    /\ pskr.op = "connect"
    /\ pskr.written = <<"GET query">>
    /\ pskr.reqs = 2

----------------------------------------------------------------------------
\* C21: the handshake of one postWwffRespot call is in order.  The callsign is
\* written only by a data event that completes a login prompt in the input
\* accumulated so far, and before anything else is written; the DX command is
\* written only after the callsign, by a data event that completes a `>`
\* prompt in the input received since the callsign was sent; a step writes at
\* most one of them, each is written at most once, and nothing is written
\* after the DX command.
C21_HandshakeOrder ==
    [][ /\ Len(respot'.written) <= 1
        /\ respot'.wire = respot.wire \o respot'.written
        /\ respot'.wire \in {<<>>, <<"spotter">>, <<"spotter", "DX">>}
        /\ respot'.written = <<"spotter">> =>
             /\ respot'.op = "data" /\ respot.wire = <<>>
             /\ LoginMatch(respot.since \o respot'.rx)
        /\ respot'.written = <<"DX">> =>
             /\ respot'.op = "data" /\ respot.wire = <<"spotter">>
             /\ PromptMatch(respot.since \o respot'.rx) ]_vars

\* the DX command has just been written, by a data event that brought the
\* prompt in the second piece received after the callsign was sent
C21_Witness ==
    /\ respot.op = "data" /\ respot.written = <<"DX">>
    /\ respot.wire = <<"spotter", "DX">>
    /\ respot.state = "done" /\ respot.rx = <<">", " ">>

----------------------------------------------------------------------------
\* C22: the promise of postWwffRespot eventually settles, and no later than
\* the overall timeout: while it is pending the overall timer is pending, and
\* the step of that timer settles it.  It settles exactly once, whatever the
\* order of timeout, error, close and the delay after the DX command: resolve
\* or reject is called once.  Once it has settled the socket is destroyed or
\* closed, and no later event changes the outcome.
C22_SettlesOnce ==
    /\ <>(respot.settled # "pending")
    /\ [](/\ respot.settles = IF respot.settled = "pending" THEN 0 ELSE 1
          /\ respot.settled = "pending" => PendingTimers(respot, "timeout") # {}
          /\ respot.settled # "pending" => respot.sock \in {"destroyed", "closed"})
    /\ [][ /\ respot'.op = "timer timeout" => respot'.settled # "pending"
           /\ respot.settled # "pending" => respot'.settled = respot.settled ]_vars

\* the delay after the DX command has run out on a call that the overall
\* timer had rejected: the outcome stays
C22_Witness ==
    /\ respot.op = "timer delay"
    /\ respot.settled = "rejected" /\ respot.settles = 1
    /\ respot.wire = <<"spotter", "DX">>

----------------------------------------------------------------------------
\* C23: the respot is best effort.  When the socket closes with no error
\* before it, while the promise is pending and the handshake is in the login or
\* the prompt state, the promise resolves; the promise is rejected only by the
\* step of a socket error or of the overall timer.
C23_CloseResolves ==
    [][ /\ ( /\ respot'.op = "close" /\ respot.settled = "pending"
             /\ respot.sock = "open" /\ respot.state \in {"login", "prompt"} )
           => respot'.settled = "resolved"
        /\ (respot.settled = "pending" /\ respot'.settled = "rejected")
           => respot'.op \in {"error", "timer timeout"} ]_vars

\* the server has closed the connection after the callsign was sent and before
\* a prompt came: the promise is resolved, no DX command was written
C23_Witness ==
    /\ respot.op = "close" /\ respot.settled = "resolved"
    /\ respot.state = "prompt" /\ respot.wire = <<"spotter">>
    /\ respot.sock = "closed"

----------------------------------------------------------------------------
\* C24: an inbound WSJT-X datagram that is malformed (shorter than the
\* envelope, wrong magic, cut short) or of an unknown type is dropped: its
\* handler emits one error event and nothing else, sends nothing, and leaves
\* the connected flag, the session id and the highlighted set as they were.
C24_ProtocolErrorsDropped ==
    [][ ( /\ wsjtx'.op = "sock message"
          /\ \/ wsjtx'.rx.form \in {"short", "badmagic", "noid", "truncated", "cutstring"}
             \/ wsjtx'.rx.type = "OTHER" )
        => /\ wsjtx'.emitted = <<"error">>
           /\ wsjtx'.written = <<>>
           /\ wsjtx'.connected = wsjtx.connected
           /\ wsjtx'.wsjtxId = wsjtx.wsjtxId
           /\ wsjtx'.timers = wsjtx.timers
           /\ wsjtx'._highlightedCalls = wsjtx._highlightedCalls ]_vars

\* a HEARTBEAT cut short inside its version string has opened a session and
\* was answered
C24_Witness ==
    /\ wsjtx.op = "sock message"
    /\ wsjtx.rx.form = "cutstring" /\ wsjtx.rx.type = "HEARTBEAT"
    /\ wsjtx.connected /\ wsjtx.wsjtxId = wsjtx.rx.id
    /\ wsjtx.emitted = <<"status connected">>
    /\ wsjtx.written = <<HeartbeatReply(wsjtx.rx)>>

----------------------------------------------------------------------------
\* the cw key and cw ptt commands that the last handler wrote
SdrKeyCmds(w) == SelectSeq(w.written, LAMBDA e : e.cmd.c \in {"cw key", "cw ptt"})

\* C25: within one SmartSDR connection every cw key and cw ptt command carries
\* an index greater than that of every earlier one written to the same socket,
\* and the index counter goes back (to 0) only in the handler of a socket's
\* connect event, never in cwStop, cwPttRelease, disconnect() or a close.
C25_KeyIndexIncreases ==
    [][ LET cmds == SdrKeyCmds(sdr')
        IN /\ \A i \in 1..Len(cmds) :
                /\ cmds[i].cmd.y > sdr.keyed
                /\ \A j \in 1..(i - 1) : cmds[j].cmd.y < cmds[i].cmd.y
           /\ sdr'._cwKeyIndex < sdr._cwKeyIndex =>
                sdr'.op = "sock connect" /\ sdr'._cwKeyIndex = 0 ]_vars

\* the connect event of a socket that disconnect() has ended has set the
\* counter back to 0 while the socket in use has carried a command with index 0
C25_Witness ==
    /\ sdr.op = "sock connect" /\ sdr.stale
    /\ sdr._sock # 0 /\ sdr.keyed = 0 /\ sdr._cwKeyIndex = 0
    /\ \E s \in sdr.socks : s.cur /\ s.st = "open"

----------------------------------------------------------------------------
\* the number that four hexadecimal digits in upper case stand for, -1 when
\* str is not that
HexValue(str) ==
    LET val(ch) == CASE ch = "0" -> 0 [] ch = "1" -> 1 [] ch = "2" -> 2 [] ch = "3" -> 3
                     [] ch = "4" -> 4 [] ch = "5" -> 5 [] ch = "6" -> 6 [] ch = "7" -> 7
                     [] ch = "8" -> 8 [] ch = "9" -> 9 [] ch = "A" -> 10 [] ch = "B" -> 11
                     [] ch = "C" -> 12 [] ch = "D" -> 13 [] ch = "E" -> 14 [] ch = "F" -> 15
                     [] OTHER -> -1
    IN IF Len(str) # 4 \/ \E i \in 1..4 : val(str[i]) = -1 THEN -1
       ELSE 4096 * val(str[1]) + 256 * val(str[2]) + 16 * val(str[3]) + val(str[4])

\* the cw key and cw ptt commands that the step writes (a step of the clock
\* writes none)
KeyCmdsOfStep == IF clock' = clock THEN SdrKeyCmds(sdr') ELSE <<>>

\* every cw key and cw ptt command of the step carries four upper-case
\* hexadecimal digits that stand for the clock modulo 2^16
TimeIsClock16 ==
    \A i \in 1..Len(KeyCmdsOfStep) : HexValue(KeyCmdsOfStep[i].cmd.time) = clock % 65536

\* C26 as stated: every cw key and cw ptt command carries the clock modulo
\* 2^16 as four upper-case hexadecimal digits, and its timestamp is not less
\* than that of the command written before it on the same connection.
C26_TimestampIncreases ==
    [][ /\ TimeIsClock16
        /\ (KeyCmdsOfStep # <<>> /\ sdr.timed # -1) =>
             clock % 65536 >= sdr.timed % 65536 ]_vars

\* C26, amended: every cw key and cw ptt command carries the clock modulo
\* 2^16 as four upper-case hexadecimal digits; its timestamp is not less than
\* that of the command written before it on the same connection as long as
\* the clock has not passed a multiple of 2^16 ms in between, where the
\* timestamp starts again from 0x0000.
C26_TimestampIsClock16 ==
    [][ /\ TimeIsClock16
        /\ ( /\ KeyCmdsOfStep # <<>> /\ sdr.timed # -1
             /\ clock \div 65536 = sdr.timed \div 65536 ) =>
             clock % 65536 >= sdr.timed % 65536 ]_vars

\* the second command of a connection has been written with time=0x0001,
\* after the timestamp has wrapped
C26_Witness ==
    /\ sdr.op = "cwKey" /\ Len(SdrKeyCmds(sdr)) = 1
    /\ SdrKeyCmds(sdr)[1].cmd.time = <<"0", "0", "0", "1">>
    /\ SdrKeyCmds(sdr)[1].cmd.y = 1
    /\ clock = ClockStart + 3

----------------------------------------------------------------------------
\* what cwStop is to write when PTT is active, or is not
StopCmds(w, active) ==
    /\ Len(w.written) = IF active THEN 2 ELSE 1
    /\ w.written[1].cmd.c = "cw key" /\ w.written[1].cmd.x = 0
    /\ active => w.written[2].cmd.c = "cw ptt" /\ w.written[2].cmd.x = 0

\* cwStop leaves PTT released and no holdoff timer
StopReleased(w) ==
    ~w._cwPttActive /\ w._cwPttTimer = 0 /\ PendingTimers(w, "cwPtt") = {}

\* C27: cwStop on a connected SmartSDR adapter, in any CW state, writes
\* cw key 0 and then, when PTT is active, cw ptt 0 in the same step; after it
\* the PTT flag is false and no holdoff timer is pending, and a later cw ptt 0
\* is written only after PTT has been set again.
C27_StopReleasesAtOnce ==
    [][ /\ (sdr'.op = "cwStop" /\ sdr.connected) =>
             StopCmds(sdr', sdr._cwPttActive) /\ StopReleased(sdr')
        /\ PttWritten(sdr', 0) > 0 => sdr._cwPttActive ]_vars

\* cwStop on an adapter whose connected flag was set by the connect event of
\* a socket that disconnect() had ended: PTT was latched, nothing is written
C27_Witness ==
    /\ sdr.op = "cwStop" /\ sdr.connected /\ sdr._sock = 0
    /\ sdr.written = <<>> /\ sdr._cwKeyIndex = 3
    /\ StopReleased(sdr)

----------------------------------------------------------------------------
(* C28: SmartSDR client binding *)

\* the client ids of the client bind commands written in the last step
BindTargets(w) ==
    {w.written[i].cmd.call : i \in {j \in 1..Len(w.written) : w.written[j].cmd.c = "client bind"}}

\* the discovered list holds neither the persistent id nor an id twice
DiscoveredClean(w) ==
    /\ w._persistentId # "" => ~InSeq(w._persistentId, w._discoveredGuiClients)
    /\ \A i, j \in 1..Len(w._discoveredGuiClients) :
         w._discoveredGuiClients[i] = w._discoveredGuiClients[j] => i = j

\* the first discovered id came in on the socket in use and is not the own id
FirstOfConnection(w, id) ==
    /\ w._discoveredGuiClients # <<>>
    /\ id = w._discoveredGuiClients[1]
    /\ id \notin w.foreign
    /\ id # w._persistentId

\* the step handles the response to the pending client bind, and the bind failed
BindRefused(w, w2) ==
    w2.op = "sock data" /\ w._bindSeq # 0 /\ w2._bindSeq = 0 /\ ~w2._cwBound

\* C28: a client bind command is written only for the first client id that a
\* status broadcast of the connection in use has brought and that is not the
\* adapter's persistent id; the discovered list never holds the persistent id
\* or an id twice; and a response to the client bind with a status other than 0
\* leaves the connection as it is, emits no error and no disconnected event
\* and reports cw-auth (unbound, ok = true).
C28_BindFirstDiscovered ==
    /\ [] DiscoveredClean(sdr)
    /\ [][ /\ \A id \in BindTargets(sdr') : FirstOfConnection(sdr', id)
           /\ BindRefused(sdr, sdr') =>
                /\ sdr'.emitted = <<"cw-auth unbound">>
                /\ sdr'.connected = sdr.connected
                /\ sdr'._sock = sdr._sock /\ sdr'.socks = sdr.socks ]_vars

\* connect(host) was called again while the first socket was open; the new
\* socket has connected, a status broadcast on the first socket has brought a
\* client id, and the client bind for that id is written to the new socket
C28_Witness ==
    /\ sdr.op \in {"setNeedsCw", "timer bind"}
    /\ sdr.connected /\ sdr._sock # 0
    /\ BindTargets(sdr) # {}
    /\ BindTargets(sdr) \subseteq sdr.foreign

----------------------------------------------------------------------------
(* C29: WSJT-X peer address *)

\* the address and port that _send uses
WsjtxRemote(w) == [addr |-> w.wsjtxAddr, port |-> w.wsjtxPort]

\* C29: the address and port used for outbound datagrams are those of the
\* sender of the packet that opened the session, and no later inbound packet
\* replaces them while the session lasts.
C29_PeerAddressKept ==
    [][ wsjtx'.op = "sock message" =>
          /\ (~wsjtx.connected /\ wsjtx'.connected) => WsjtxRemote(wsjtx') = wsjtx'.rx.peer
          /\ (wsjtx.connected /\ wsjtx'.connected) => WsjtxRemote(wsjtx') = WsjtxRemote(wsjtx) ]_vars

\* in a session, a DECODE that carries another id has arrived from the second
\* sender: the session and its id stay, and outbound datagrams now go to the
\* second sender
C29_Witness ==
    /\ wsjtx.op = "sock message" /\ wsjtx.connected /\ wsjtx.emitted = <<"decode">>
    /\ wsjtx.rx.form = "ok" /\ wsjtx.rx.type = "DECODE"
    /\ wsjtx.wsjtxId = "WSJT-X" /\ wsjtx.rx.id = "JTDX"
    /\ wsjtx.rx.peer.addr = "192.168.1.5"
    /\ WsjtxRemote(wsjtx) = wsjtx.rx.peer

----------------------------------------------------------------------------
(* C30: codec round trip *)

\* the string arguments of a message
StringsOf(m) ==
    {m.id} \cup (IF m.type = MSG.REPLY THEN {m.decode.mode, m.decode.message} ELSE {})

\* every argument of the builder is a field of the decoded message, with the
\* same value
SameFields(m, out) ==
    /\ DOMAIN m \subseteq DOMAIN out
    /\ \A f \in DOMAIN m : out[f] = m[f]

\* what the reader makes of an empty string that the writer wrote
DecodedEmpty == ReadUtf8([buf |-> WriteUtf8(Str(<<>>)), offset |-> 0]).v

\* what the reader makes of a null string that the writer wrote
DecodedNull == ReadUtf8([buf |-> WriteUtf8(Null), offset |-> 0]).v

\* C30: a REPLY, HALT_TX or HEARTBEAT message that is encoded and then decoded
\* has the field values it was built from, and a string written as null is
\* decoded to a value other than the one an empty string is decoded to.
C30_RoundTrip ==
    codec.op = "decode" =>
        /\ SameFields(codec.msg, codec.out)
        /\ DecodedNull # DecodedEmpty

\* a REPLY built with an id and a null mode is decoded: the mode comes back as
\* the empty string, every other field as it was
C30_Witness ==
    /\ codec.op = "decode" /\ codec.msg.type = MSG.REPLY
    /\ codec.msg.id = Str(<<65>>) /\ codec.msg.decode.mode = Null
    /\ codec.msg.decode.message = Str(<<233>>) /\ codec.msg.decode.snr = -12
    /\ codec.out.decode.mode = Str(<<>>)
    /\ codec.out.decode = [codec.msg.decode EXCEPT !.mode = Str(<<>>)]
    /\ codec.out.id = codec.msg.id /\ codec.out.modifiers = codec.msg.modifiers

----------------------------------------------------------------------------
(* C31: Julian-day conversion *)

\* (J - 2440588) * 86400000 + m
JulianTime(m) == TimeValue(m.julianDay - JulianEpoch, m.msOfDay)

\* C31: every date-time field decodes to (J - 2440588) * 86400000 + m
\* milliseconds since the Unix epoch, and J = 2440588, m = 0 to the epoch.
C31_JulianDay ==
    codec.op = "readQDateTime" =>
        /\ codec.out.v = JulianTime(codec.msg)
        /\ (codec.msg.julianDay = JulianEpoch /\ codec.msg.msOfDay = 0) =>
               codec.out.v = [valid |-> TRUE, days |-> 0, ms |-> 0]

\* C31, amended: a date-time field whose (J - 2440588) * 86400000 + m lies
\* within 8,640,000,000,000,000 ms of the epoch decodes to that time value,
\* whatever its timespec; any other field decodes to an Invalid Date; and
\* J = 2440588, m = 0 decodes to the epoch.
C31_JulianDayInRange ==
    codec.op = "readQDateTime" =>
        /\ codec.out.v = NewDate(JulianTime(codec.msg))
        /\ codec.out.r.offset = 13
        /\ (codec.msg.julianDay = JulianEpoch /\ codec.msg.msOfDay = 0) =>
               codec.out.v = [valid |-> TRUE, days |-> 0, ms |-> 0]

\* the day before Julian day 0 with 2^31 - 1 ms, in local time: 2440588 days
\* before the epoch, 24 days and 73,883,647 ms later
C31_Witness ==
    /\ codec.op = "readQDateTime"
    /\ codec.msg = [julianDay |-> -1, msOfDay |-> 2147483647, timespec |-> 0]
    /\ codec.out.v = [valid |-> TRUE, days |-> -2440589 + 24, ms |-> 73883647]

----------------------------------------------------------------------------
(* C32: callsign extraction *)

\* a callsign has a letter and a digit
IsCallsign(token) ==
    /\ \E i \in 1..Len(token) : token[i] \in Digits
    /\ \E i \in 1..Len(token) : token[i] \in UpperLetters

\* a CQ qualifier: two or three letters, not a callsign
IsQualifier(token) ==
    /\ Len(token) \in {2, 3}
    /\ \A i \in 1..Len(token) : token[i] \in UpperLetters
    /\ ~IsCallsign(token)

\* the callsigns the three shapes give for a list of tokens
ShapeCalls(tokens) ==
    IF tokens # <<>> /\ tokens[1] = <<"C", "Q">>
    THEN [dxCall |-> IF Len(tokens) >= 2 /\ IsQualifier(tokens[2])
                     THEN PartOr(tokens, 2) ELSE PartOr(tokens, 1),
          deCall |-> <<>>]
    ELSE [deCall |-> PartOr(tokens, 0), dxCall |-> PartOr(tokens, 1)]

\* C32: for a text that starts with CQ, dxCall is the token after CQ, or the
\* one after that when the token after CQ is a qualifier of two or three
\* letters that is not a callsign, and deCall is empty; for any other text
\* deCall is the first token and dxCall the second.
C32_ExtractCallsigns ==
    codec.op = "extractCallsigns" => codec.out = ShapeCalls(codec.msg.tokens)

\* "CQ K1A FN42": the three-character callsign K1A is skipped as if it were a
\* qualifier, and dxCall is the grid
C32_Witness ==
    /\ codec.op = "extractCallsigns"
    /\ codec.msg.tokens = <<<<"C", "Q">>, <<"K", "1", "A">>, <<"F", "N", "4", "2">>>>
    /\ codec.msg.text = <<"C", "Q", " ", "K", "1", "A", " ", "F", "N", "4", "2">>
    /\ codec.out = [dxCall |-> <<"F", "N", "4", "2">>, deCall |-> <<>>]

----------------------------------------------------------------------------
(* C33: PSKReporter, late outcomes *)

\* C33: the response or the error of a request that was issued before a
\* disconnect() is not processed, also when connect() has been called since:
\* its step emits nothing, leaves the connected flag as it is and schedules no
\* poll.
C33_LateOutcomeIgnored ==
    [][ (pskr'.op \in PskrOutcomeOps /\ pskr'.stale) =>
          /\ pskr'.emitted = <<>>
          /\ pskr'.connected = pskr.connected
          /\ pskr'.timers = pskr.timers /\ pskr'._pollTimer = pskr._pollTimer ]_vars

\* disconnect() and connect() have been called while a request was in flight;
\* its response, a 200 with a reception report, ends before that of the new
\* request: the spot and the status event are emitted and a poll is scheduled
C33_Witness ==
    /\ pskr.op = "http response" /\ pskr.stale /\ pskr.rx = 200
    /\ pskr.emitted = <<"spot", "status connected">>
    /\ pskr.connected /\ pskr._pollTimer # 0
    /\ pskr.reqs = 1 /\ pskr.old = 0

-----------------------------------------------------------------------------
(* C34: the frequency index and the two spot sets *)

\* the callsigns that have an entry in an adapter's _spotFreqs
Indexed(w) == {c \in Calls : w._spotFreqs[c] # 0}

Tracked(w) == SeqToSet(w._activeSpots) \cup SeqToSet(w._previousSpots)

\* C34: in the SmartSDR and TCI adapters, after any sequence of addSpot,
\* pruneStaleSpots and clearSpots calls in any connection state, the callsigns
\* that have an entry in the frequency index are exactly those of the active
\* set and of the previous set together
C34_IndexIsActiveAndPrevious ==
    /\ Indexed(sdr) = Tracked(sdr)
    /\ Indexed(tci) = Tracked(tci)

\* a pruneStaleSpots made while not connected: nothing is written, and the
\* index holds the one callsign that moved to the previous set
C34_Witness ==
    /\ sdr.op = "pruneStaleSpots" /\ ~sdr.connected
    /\ sdr.cycPrev # {} /\ sdr._activeSpots = <<>>
    /\ Indexed(sdr) = SeqToSet(sdr._previousSpots)
    /\ Cardinality(Indexed(sdr)) = 1
    /\ sdr.written = <<>>

-----------------------------------------------------------------------------
(* C35: the PTT-active flag and the holdoff timer *)

\* the steps that run cwPttRelease
PttReleaseOps == {"cwPttRelease", "timer cwPtt", "cwStop", "disconnect"}

\* a holdoff timer is pending: the runtime has one that has not fired, and
\* _cwPttTimer holds its handle
PttTimerPending(w) ==
    /\ w._cwPttTimer # 0
    /\ \E t \in PendingTimers(w, "cwPtt") : t.h

\* no holdoff timer at all, and no handle
PttTimerNone(w) == w._cwPttTimer = 0 /\ PendingTimers(w, "cwPtt") = {}

\* C35: in every reachable state of the SmartSDR adapter the PTT-active flag is
\* true if and only if a PTT holdoff timer is pending; cwPttOn sets both, and
\* cwPttRelease (called directly, by the timer, by cwStop or by disconnect)
\* clears both
C35_PttActiveIffTimer ==
    /\ [](sdr._cwPttActive <=> PttTimerPending(sdr))
    /\ [](~sdr._cwPttActive <=> PttTimerNone(sdr))
    /\ [][ /\ sdr'.op = "cwPttOn" => sdr'._cwPttActive /\ PttTimerPending(sdr')
           /\ sdr'.op \in PttReleaseOps => ~sdr'._cwPttActive /\ PttTimerNone(sdr') ]_vars

\* the holdoff timer has fired on a connected adapter: cw ptt 0 is written and
\* the flag and the timer are both gone
C35_Witness ==
    /\ sdr.op = "timer cwPtt" /\ sdr.connected
    /\ Len(sdr.written) = 1 /\ sdr.written[1].cmd.c = "cw ptt" /\ sdr.written[1].cmd.x = 0
    /\ ~sdr._cwPttActive /\ PttTimerNone(sdr)

-----------------------------------------------------------------------------
(* C36: no connection attempt between disconnect() and the next connect() *)

\* the step has run _doConnect: a socket that was not there before, connecting
\* and referred to by the adapter, or (TCI) the error of a URL that cannot be
\* parsed
SdrAttempted(w, v) == \E s \in v.socks : s \notin w.socks /\ s.st = "connecting"

TciAttempted(w, v) ==
    \/ \E s \in v.socks : s \notin w.socks /\ s.st = "connecting"
    \/ v.op \in {"connect", "timer reconnect"} /\ InSeq("error", v.emitted)

\* C36: after disconnect() on a SmartSDR or TCI adapter, the adapter initiates no
\* connection attempt until connect() is called again, whatever socket close
\* events or reconnect timer firings occur in between.  disconnect() leaves the
\* adapter without a host, no step but connect() gives it one, and no step of
\* an adapter without a host but connect() makes an attempt
C36_NoAttemptAfterDisconnect ==
    /\ [][ /\ sdr'.op = "disconnect" => sdr'._host = 0
           /\ (sdr._host = 0 /\ sdr'.op # "connect") =>
                 sdr'._host = 0 /\ ~SdrAttempted(sdr, sdr') ]_vars
    /\ [][ /\ tci'.op = "disconnect" => tci'._host = ""
           /\ (tci._host = "" /\ tci'.op # "connect") =>
                 tci'._host = "" /\ ~TciAttempted(tci, tci') ]_vars

\* the reconnect timer that the close event of the socket closed by
\* disconnect() has armed fires: no socket is created
C36_Witness ==
    /\ sdr.op = "timer reconnect" /\ sdr._host = 0
    /\ sdr.socks = {} /\ sdr._sock = 0 /\ ~sdr.connected
    /\ sdr.timers = {} /\ sdr._reconnectTimer = 0

-----------------------------------------------------------------------------
(* C37: one socket, described by the socket reference and the connected flag *)

\* the sockets that are connecting or open, with the handlers of _doConnect
\* attached, and that disconnect() has not closed
SdrAttached(w) == {s \in w.socks : s.st \in {"connecting", "open"} /\ ~s.ended}

\* the same for TCI; a WebSocket stays attached while its closing handshake runs
TciAttached(w) == {s \in w.socks : s.st \in {"connecting", "open", "closing"} /\ ~s.ended}

\* the socket reference and the connected flag describe the attached sockets
Described(ref, connected, attached) ==
    /\ \A s \in attached : s.cur
    /\ ref # 0 => \E s \in attached : s.cur
    /\ connected => \E s \in attached : s.cur /\ s.st # "connecting"
    /\ \A s \in attached : s.st = "open" => connected

\* C37: for every interleaving of connect(), disconnect(), socket events and
\* reconnect timer firings, a SmartSDR or TCI adapter has at most one socket
\* that is open or connecting with its handlers attached, and the adapter's
\* socket reference and connected flag describe that socket
C37_OneSocketDescribed ==
    /\ Cardinality(SdrAttached(sdr)) <= 1
    /\ Described(sdr._sock, sdr.connected, SdrAttached(sdr))
    /\ Cardinality(TciAttached(tci)) <= 1
    /\ Described(tci._ws, tci.connected, TciAttached(tci))

\* the reconnect timer armed by the close event of an earlier connection has
\* opened a second socket next to the one of the last connect()
C37_Witness ==
    /\ sdr.op = "timer reconnect"
    /\ Cardinality(SdrAttached(sdr)) = 2
    /\ \E s \in SdrAttached(sdr) : ~s.cur

-----------------------------------------------------------------------------
(* C38: the CW bound flag *)

\* the steps of connect(), of the socket's 'connect' and 'close' events (an
\* error is followed by the close in the same step, and so is the delayed
\* destroy of a socket that is not closed yet) and of disconnect()
BoundResetOps == {"connect", "sock connect", "sock close", "sock error", "disconnect"}

\* C38: in every reachable state of the SmartSDR adapter the CW bound flag is
\* true only if the adapter is connected, and it becomes true only by a
\* response with status 0 to the pending bind command that arrives on a socket
\* disconnect() has not closed; it is false after every connect, close and
\* disconnect
C38_BoundOnlyWhenConnected ==
    /\ [](sdr._cwBound => sdr.connected)
    /\ [][ /\ (~sdr._cwBound /\ sdr'._cwBound) =>
                 /\ sdr'.op = "sock data" /\ ~sdr'.stale
                 /\ sdr.connected /\ sdr._bindSeq # 0 /\ sdr'._bindSeq = 0
           /\ sdr'.op \in BoundResetOps => ~sdr'._cwBound ]_vars

\* the acknowledgement of the bind command arrives on the socket that
\* disconnect() has closed: the flag is set on an adapter that is not connected
C38_Witness ==
    /\ sdr.op = "sock data" /\ sdr.stale
    /\ sdr._cwBound /\ ~sdr.connected /\ sdr._sock = 0 /\ sdr._host = 0
    /\ sdr.emitted = <<"cw-auth bind">>

-----------------------------------------------------------------------------
(* C39: SmartSDR inbound line buffering *)

\* the lines of a connection's stream taken as one piece, and its
\* unterminated tail
LinesOf(stream) == SplitLines(stream, <<>>).lines
TailOf(stream) == SplitLines(stream, <<>>).rest

\* C39: for any split of one connection's inbound byte stream into chunks, the
\* lines handed to the line handler are those of the unsplit stream, each
\* newline-terminated line once and in arrival order, and the unterminated tail
\* is kept only until its newline arrives on the same connection: after a
\* 'data' event the buffer is the tail of that connection's stream, and bytes of
\* one connection are never joined with bytes of another
C39_LineBuffering ==
    /\ \A s \in sdr.socks : s.got = LinesOf(s.rx)
    /\ sdr.op = "sock chunk" => \E s \in sdr.socks : sdr._buf = TailOf(s.rx)

\* the first chunk of a connection ends a line: the line handed over starts
\* with the tail that an earlier connection left in the buffer
C39_Witness ==
    /\ sdr.op = "sock chunk" /\ ~sdr.stale
    /\ \E s \in sdr.socks :
         /\ s.cur /\ s.rx = <<"V", LF>>
         /\ s.got = <<<<"V", "V">>>>
    /\ sdr.lines = <<<<"V", "V">>>>
    /\ Cardinality(sdr.socks) = 1

-----------------------------------------------------------------------------
(* C40: PSKReporter polling neither stalls nor doubles *)

\* the steps that end a poll: a response, a request error, a request timeout
PollEndOps == {"http response", "http error", "http timeout"}

\* the steps that start a poll or end the polling
PollStartOps == {"timer poll", "connect", "disconnect"}

\* C40: PSKReporter polling never stalls and never doubles while active: every
\* poll outcome (200, 503, other status, request error or request timeout)
\* handled while the client is active leaves exactly one poll timer pending,
\* there is never more than one, and after such an outcome another poll is
\* eventually started unless disconnect() is called
C40_PollingContinues ==
    /\ [](Cardinality(PendingTimers(pskr, "poll")) <= 1)
    /\ [][ (pskr'.op \in PollEndOps /\ pskr._active) =>
              /\ Cardinality(PendingTimers(pskr', "poll")) = 1
              /\ pskr'._pollTimer # 0 ]_vars
    /\ (pskr.op \in PollEndOps /\ pskr._active) ~> (pskr.op \in PollStartOps)

\* the only request in flight has timed out during the response: the client is
\* active with no request in flight and no poll timer
C40_Witness ==
    /\ pskr.op = "http timeout" /\ ~pskr.stale
    /\ pskr._active /\ pskr.reqs = 0
    /\ pskr._pollTimer = 0 /\ PendingTimers(pskr, "poll") = {}
    /\ pskr.emitted = <<>>
====
